---- MODULE Spec2Model ----
(***************************************************************************)
(* Model of the soundboard's audio file registry: AudioFileService (the    *)
(* catalog Map, the directory scan, the chokidar watcher handlers) and the *)
(* utility functions it calls.                                             *)
(*                                                                         *)
(* Strings are sequences of one-character strings, so that path.extname,   *)
(* toLowerCase, the id's sanitising regex and the template string of       *)
(* generateAudioFileId are computed character by character as the code     *)
(* computes them.                                                          *)
(***************************************************************************)
EXTENDS Integers, Sequences, FiniteSets, TLC

(***************************************************************************)
(* Bounds of the model.                                                    *)
(***************************************************************************)
\* Date.now() runs from 1 to MaxTime milliseconds.
MaxTime == 2
\* Number of asynchronous operations (initialize, refresh, add/change
\* handlers) that may be suspended on I/O at the same moment.
MaxTasks == 2
\* Number of events of the environment: changes other processes make to the
\* watched directory and errors of the watcher.
MaxFsOps == 2
\* The same two bounds in the smaller instance SpecSmall.
MaxInFlight == 1
MaxWrites == 1
\* Number of watchers that repeated calls of initialize() may leave open.
MaxWatchers == 2

(***************************************************************************)
(* Program constants.                                                      *)
(***************************************************************************)
\* appConfig.maxFileSize, default 50 * 1024 * 1024
maxFileSize == 52428800

\* const supportedFormats: SupportedAudioFormat[] = ['wav', 'mp3', 'ogg']
supportedFormats == { <<"w","a","v">>, <<"m","p","3">>, <<"o","g","g">> }

\* appConfig.audioDirectory: path.join(process.cwd(), 'audio'), an absolute path
audioDirectory == <<"/","a","u","d","i","o">>

(***************************************************************************)
(* Characters and strings.                                                 *)
(***************************************************************************)
UpperCase == <<"A","B","C","D","E","F","G","H","I","J","K","L","M",
               "N","O","P","Q","R","S","T","U","V","W","X","Y","Z">>
LowerCase == <<"a","b","c","d","e","f","g","h","i","j","k","l","m",
               "n","o","p","q","r","s","t","u","v","w","x","y","z">>
DigitChars == <<"0","1","2","3","4","5","6","7","8","9">>

Range(s) == { s[i] : i \in DOMAIN s }

\* String.prototype.toLowerCase, one character
LowerChar(c) ==
    IF \E i \in DOMAIN UpperCase : UpperCase[i] = c
    THEN LowerCase[CHOOSE i \in DOMAIN UpperCase : UpperCase[i] = c]
    ELSE c

\* String.prototype.toLowerCase
toLowerCase(s) == [i \in DOMAIN s |-> LowerChar(s[i])]

\* String.prototype.slice(1)
Slice1(s) == IF Len(s) = 0 THEN <<>> ELSE Tail(s)

\* Positions of the dots of a string
DotPositions(s) == { i \in DOMAIN s : s[i] = "." }

\* path.extname on a plain entry name: from the last '.' to the end; empty
\* when there is no '.' or the only '.' is the first character.
extname(s) ==
    IF DotPositions(s) = {} THEN <<>>
    ELSE LET last == CHOOSE i \in DotPositions(s) :
                         \A j \in DotPositions(s) : j <= i
         IN  IF last = 1 THEN <<>> ELSE SubSeq(s, last, Len(s))

\* path.join(audioDirectory, filename)
JoinPath(dir, filename) == dir \o <<"/">> \o filename

\* path.basename of a path
basename(p) ==
    LET slashes == { i \in DOMAIN p : p[i] = "/" }
    IN  IF slashes = {} THEN p
        ELSE LET last == CHOOSE i \in slashes : \A j \in slashes : j <= i
             IN  SubSeq(p, last + 1, Len(p))

\* String.prototype.replace('.', ''): removes the first '.' only
RemoveFirstDot(s) ==
    IF DotPositions(s) = {} THEN s
    ELSE LET first == CHOOSE i \in DotPositions(s) :
                          \A j \in DotPositions(s) : i <= j
         IN  SubSeq(s, 1, first - 1) \o SubSeq(s, first + 1, Len(s))

\* Number.prototype.toString of a non-negative integer (template string)
RECURSIVE NumberToString(_)
NumberToString(n) ==
    IF n < 10 THEN << DigitChars[n + 1] >>
    ELSE NumberToString(n \div 10) \o << DigitChars[(n % 10) + 1] >>

(***************************************************************************)
(* src/utils/index.ts                                                      *)
(***************************************************************************)
isSupportedAudioFormat(extension) == toLowerCase(extension) \in supportedFormats

\* the property names every object literal inherits from Object.prototype
\* that are written in lower case (toString, valueOf, hasOwnProperty and the
\* others have a capital, which toLowerCase() never yields)
InheritedKeys == { <<"c","o","n","s","t","r","u","c","t","o","r">>, <<"_","_","p","r","o","t","o","_","_">> }

\* what mimeTypes[key] is for an inherited key: a function or an object,
\* which `||` lets through
InheritedProperty == "[Object.prototype property]"

\* mimeTypes[normalizedExt] || 'application/octet-stream'
getMimeType(extension) ==
    LET normalizedExt == RemoveFirstDot(toLowerCase(extension))
    IN  CASE normalizedExt = <<"w","a","v">> -> "audio/wav"
          [] normalizedExt = <<"m","p","3">> -> "audio/mpeg"
          [] normalizedExt = <<"o","g","g">> -> "audio/ogg"
          [] normalizedExt \in InheritedKeys -> InheritedProperty
          [] OTHER -> "application/octet-stream"

\* the characters the regex /[^a-zA-Z0-9.-]/g leaves alone
IdChars == Range(UpperCase) \cup Range(LowerCase) \cup Range(DigitChars) \cup {".", "-"}

\* filename.replace(/[^a-zA-Z0-9.-]/g, '_')
Sanitize(filename) ==
    [i \in DOMAIN filename |-> IF filename[i] \in IdChars THEN filename[i] ELSE "_"]

\* `${sanitized}_${timestamp}` with timestamp = Date.now()
generateAudioFileId(filename, timestamp) ==
    Sanitize(filename) \o <<"_">> \o NumberToString(timestamp)

validateFileSize_NoLimit(size, maxSize) == size > 0

validateFileSize_Exclusive(size, maxSize) == size > 0 /\ size < maxSize

validateFileSize(size, maxSize) == size > 0 /\ size <= maxSize

(***************************************************************************)
(* The watched directory, as other processes leave it.                     *)
(***************************************************************************)
spacedMp3 == <<"a"," ","b",".","m","p","3">>
underMp3 == <<"a","_","b",".","m","p","3">>
readmeTxt == <<"r",".","t","x","t">>
hiddenOgg == <<".","h",".","O","G","G">>

\* the entry names the directory may hold, in the order readdir lists them
Listing == << hiddenOgg, spacedMp3, underMp3, readmeTxt >>
Names == Range(Listing)

\* sizes of the files written while the service runs
WrittenSizes == {maxFileSize, maxFileSize + 1}

\* what fs.stat finds for a name: nothing (it rejects), a directory, a file
NoEnt == [kind |-> "enoent", size |-> 0]
Dir == [kind |-> "dir", size |-> 0]
File(size) == [kind |-> "file", size |-> size]
NoStat == [kind |-> "pending", size |-> 0]

EmptyDisk == [f \in Names |-> NoEnt]

InitialDisks ==
    { EmptyDisk,
      [EmptyDisk EXCEPT ![spacedMp3] = File(maxFileSize), ![readmeTxt] = File(maxFileSize)],
      [EmptyDisk EXCEPT ![spacedMp3] = File(0)] }

(***************************************************************************)
(* AudioFile records and the Map<string, AudioFile> that holds them.  The  *)
(* Map is a sequence in insertion order; the fields kept are the ones the  *)
(* service's behaviour depends on.                                         *)
(***************************************************************************)
Null == [null |-> TRUE]

\* Map.prototype.has
MapHas(m, id) == \E i \in DOMAIN m : m[i].id = id

\* Map.prototype.get (Null for undefined)
MapGet(m, id) ==
    IF MapHas(m, id) THEN m[CHOOSE i \in DOMAIN m : m[i].id = id] ELSE Null

\* Map.prototype.set: an existing key keeps its slot, a new key is appended
MapSet_Appends(m, e) == Append(m, e)

MapSet(m, e) ==
    IF MapHas(m, e.id)
    THEN [i \in DOMAIN m |-> IF m[i].id = e.id THEN e ELSE m[i]]
    ELSE Append(m, e)

\* Map.prototype.delete
MapDelete(m, id) == SelectSeq(m, LAMBDA e : e.id # id)

\* Array.prototype.find over Array.from(map.values()), by filename
FindByFilename(m, filename) ==
    IF \E i \in DOMAIN m : m[i].filename = filename
    THEN m[CHOOSE i \in DOMAIN m :
               /\ m[i].filename = filename
               /\ \A j \in DOMAIN m : m[j].filename = filename => i <= j]
    ELSE Null

\* AudioFileService.isSupportedAudioFile
isSupportedAudioFile_Any(filename) == TRUE

isSupportedAudioFile(filename) ==
    isSupportedAudioFormat(Slice1(toLowerCase(extname(filename))))

\* AudioFileService.createAudioFileMetadata, after fs.stat has answered
\* `stats` at time `timestamp`; Null when it returns null.
createAudioFileMetadata(filename, stats, timestamp) ==
    IF stats.kind = "enoent" THEN Null
    ELSE IF stats.kind # "file" THEN Null
    ELSE IF ~validateFileSize(stats.size, maxFileSize) THEN Null
    ELSE LET extension == Slice1(toLowerCase(extname(filename)))
         IN  [ id |-> generateAudioFileId(filename, timestamp),
               filename |-> filename,
               extension |-> extension,
               size |-> stats.size,
               mimeType |-> getMimeType(extension) ]

\* the `ignored: /^\./` option of the watcher, tested against the event's path
Ignored(filePath) == Len(filePath) > 0 /\ Head(filePath) = "."

(***************************************************************************)
(* State.                                                                  *)
(***************************************************************************)
VARIABLES
    disk,               \* what fs.stat finds for each name of the directory
    dir,                \* the directory itself: "present", "missing",
                        \* "unlistable" (readdir fails), "blocked" (mkdir fails)
    audioFiles,         \* AudioFileService.audioFiles
    fileWatcher,        \* AudioFileService.fileWatcher is not null
    enableFileWatching, \* appConfig.enableFileWatching
    initState,          \* initialize(): "new", "running", "done", "failed"
    tasks,              \* the asynchronous operations suspended on I/O
    now,                \* the last value Date.now() returned
    fsOps,              \* changes made to the directory so far
    effects,            \* what the last step emitted, rejected, logged or answered
    listeners,          \* some listener is subscribed to the service's events
    watchers,           \* the chokidar watchers: how many are open, and whether
                        \* the one this.fileWatcher holds is open
    quiet,              \* the Map of the same service, given the same operations
                        \* and events, when no listener is ever subscribed
    app,                \* the process of SoundboardApp: its configuration, whether
                        \* start() has called app.listen, whether it has exited
    held                \* the array a caller got from getAllAudioFiles() before it
                        \* called refresh()

vars == << disk, dir, audioFiles, fileWatcher, enableFileWatching, initState,
           tasks, now, fsOps, effects, listeners, watchers, quiet, app, held >>

TaskIds == 1..MaxTasks

\* the process when the service is driven directly, not by SoundboardApp
NoApp == [phase |-> "none", listening |-> FALSE, exited |-> FALSE, status |-> 0,
          port |-> 3000, directory |-> audioDirectory]

\* no watcher was started; the watcher startFileWatching has started is open
NoWatcher == [open |-> 0, current |-> FALSE]
OneWatcher == [open |-> 1, current |-> TRUE]

\* the Map once this.emit(...) has called the listeners subscribed: emit hands
\* them the notification and returns, it does not touch the Map
AfterEmit_NeedsListener(subscribed, m) == IF subscribed THEN m ELSE <<>>

AfterEmit(subscribed, m) == m

\* this.emit('refresh', this.getAllAudioFiles())
RefreshEmits_Nothing(m) == <<>>

RefreshEmits(m) ==
    << [type |-> "emit", name |-> "refresh", event |-> "-", path |-> <<>>,
        payload |-> m] >>

\* this.emit('fileChange', change) with change = { event, path, audioFile? }
FileChange(event, filePath, entries) ==
    << [type |-> "emit", name |-> "fileChange", event |-> event, path |-> filePath,
        payload |-> entries] >>

\* the promise of initialize() or refresh() rejects; reason is the step that threw
Rejects(name, reason) ==
    << [type |-> "reject", name |-> name, event |-> reason, path |-> <<>>,
        payload |-> <<>>] >>

\* the promise of cleanup() resolves
Resolves(name) ==
    << [type |-> "resolve", name |-> name, event |-> "-", path |-> <<>>,
        payload |-> <<>>] >>

\* console.error('File watcher error:', ...) of the watcher's 'error' listener
ErrorLogged ==
    << [type |-> "log", name |-> "watcherError", event |-> "-", path |-> <<>>,
        payload |-> <<>>] >>

\* One createAudioFileMetadata call. Its fs.stat is queued; the thread pool
\* performs it at some moment (stats is then what it found); its callback
\* runs later and settles the promise with value.
QueuedCall == [st |-> "queued", stats |-> NoStat, value |-> Null]

NoTask == [kind |-> "none", pc |-> "-", event |-> "-", files |-> <<>>, io |-> <<>>]

FreeTasks == { t \in TaskIds : tasks[t].kind = "none" }
FirstFree == CHOOSE t \in FreeTasks : \A u \in FreeTasks : t <= u

\* every createAudioFileMetadata promise of the task is settled: what follows
\* (Promise.allSettled's continuation, or the handler's) runs before any
\* other callback of the event loop
Settled(t) ==
    /\ tasks[t].pc = "stat"
    /\ \A i \in DOMAIN tasks[t].io : tasks[t].io[i].st = "done"

\* `await this.audioFileService.initialize()` of start() has settled: the rest
\* of start() runs before any other callback
StartPending == app.phase = "starting" /\ initState \in {"done", "failed"}

\* `await this.audioFileService.cleanup()` of shutdown() has settled: the rest
\* of shutdown() runs before any other callback
ShutdownPending ==
    /\ app.phase = "up"
    /\ effects # <<>>
    /\ effects[1].name = "cleanup"
    /\ effects[1].type \in {"resolve", "reject"}

\* a continuation is running, or the process has exited: no other callback
\* can start
Busy ==
    \/ \E t \in TaskIds : Settled(t)
    \/ StartPending
    \/ ShutdownPending
    \/ app.exited

Init ==
    /\ dir \in {"present", "missing", "blocked"}
    /\ disk \in IF dir = "present" THEN InitialDisks ELSE {EmptyDisk}
    /\ audioFiles = <<>>
    /\ fileWatcher = FALSE
    /\ enableFileWatching = TRUE   \* the default of ENABLE_FILE_WATCHING
    /\ initState = "new"
    /\ tasks = [t \in TaskIds |-> NoTask]
    /\ now = 1
    /\ fsOps = 0
    /\ effects = <<>>
    /\ listeners = FALSE
    /\ watchers = NoWatcher
    /\ quiet = audioFiles
    /\ app = NoApp
    /\ held = <<>>

(***************************************************************************)
(* Reads.                                                                  *)
(***************************************************************************)
\* AudioFileService.getAllAudioFiles
getAllAudioFiles == audioFiles

\* AudioFileService.getAudioFileById
getAudioFileById(id) == MapGet(audioFiles, id)

\* AudioFileService.getAudioFileCount
getAudioFileCount_OnDisk == Cardinality({ f \in Names : disk[f].kind = "file" })

getAudioFileCount == Len(audioFiles)

(***************************************************************************)
(* initialize(), refresh() and the scan they share.                        *)
(***************************************************************************)
\* initialize() is called: fs.access of ensureAudioDirectory is issued. The
\* process of the caller is then a.
InitializeBy(a) ==
    /\ ~Busy
    /\ initState = "new"
    /\ FreeTasks # {}
    /\ tasks' = [tasks EXCEPT ![FirstFree] =
                    [NoTask EXCEPT !.kind = "init", !.pc = "ensure"]]
    /\ initState' = "running"
    /\ effects' = <<>>
    /\ app' = a
    /\ UNCHANGED << disk, dir, audioFiles, fileWatcher, enableFileWatching, held, now,
                    fsOps, listeners, watchers, quiet >>

InitializeCall == InitializeBy(app)

\* initialize() is called again, after an earlier call has returned or thrown
InitializeAgain ==
    /\ ~Busy
    /\ initState \in {"done", "failed"}
    /\ watchers.open < MaxWatchers
    /\ FreeTasks # {}
    /\ tasks' = [tasks EXCEPT ![FirstFree] =
                    [NoTask EXCEPT !.kind = "init", !.pc = "ensure"]]
    /\ initState' = "running"
    /\ effects' = <<>>
    /\ UNCHANGED << disk, dir, audioFiles, fileWatcher, enableFileWatching, app, held, now, fsOps,
                    listeners, watchers, quiet >>

\* ensureAudioDirectory: fs.access, and fs.mkdir when it rejects; then
\* scanAudioFiles issues fs.readdir
EnsureDirDone(t) ==
    /\ ~Busy
    /\ tasks[t].kind = "init" /\ tasks[t].pc = "ensure"
    /\ IF dir = "blocked"
       THEN /\ tasks' = [tasks EXCEPT ![t] = NoTask]
            /\ initState' = "failed"
            /\ effects' = Rejects("initialize", "mkdir")
            /\ UNCHANGED dir
       ELSE /\ tasks' = [tasks EXCEPT ![t].pc = "readdir"]
            /\ dir' = IF dir = "missing" THEN "present" ELSE dir
            /\ effects' = <<>>
            /\ UNCHANGED initState
    /\ UNCHANGED << disk, audioFiles, fileWatcher, enableFileWatching, app, held, now, fsOps,
                    listeners, watchers, quiet >>

\* what refresh() does to the Map before it scans
RefreshClear(m) == <<>>

\* refresh() is called: the Map is cleared, scanAudioFiles issues fs.readdir.
\* Its caller holds the array listed.
RefreshHolding(listed) ==
    /\ ~Busy
    /\ FreeTasks # {}
    /\ audioFiles' = RefreshClear(audioFiles)
    /\ quiet' = RefreshClear(quiet)
    /\ tasks' = [tasks EXCEPT ![FirstFree] =
                    [NoTask EXCEPT !.kind = "refresh", !.pc = "readdir"]]
    /\ effects' = <<>>
    /\ held' = listed
    /\ UNCHANGED << disk, dir, fileWatcher, enableFileWatching, app, initState, now,
                    fsOps, listeners, watchers >>

RefreshCall == RefreshHolding(held)

\* a caller takes list() and calls refresh() in the same turn
ListThenRefresh == RefreshHolding(getAllAudioFiles)

\* what fs.readdir resolves to when the directory holds d
ReaddirResult(d) == SelectSeq(Listing, LAMBDA f : d[f].kind # "enoent")

\* files.filter(filename => this.isSupportedAudioFile(filename))
ScanCandidates == SelectSeq(ReaddirResult(disk), isSupportedAudioFile)

\* fs.readdir rejects: scanAudioFiles throws 'Failed to scan audio directory'
ScanFails_Never(d) == FALSE

ScanFails(d) == d # "present"

\* whether watch() may throw in startFileWatching(): only where it is called
Throws(kind) == IF kind = "init" /\ enableFileWatching THEN BOOLEAN ELSE {FALSE}

\* startFileWatching() when enabled, at the end of a successful scan of
\* initialize(); this.fileWatcher is not assigned when watch() throws
WatcherAfterInit_Always(kind, threw) ==
    IF kind = "init" /\ ~threw THEN TRUE ELSE fileWatcher

WatcherAfterInit(kind, threw) ==
    IF kind = "init" /\ enableFileWatching /\ ~threw THEN TRUE ELSE fileWatcher

\* the watchers after the same step: watch() opens one more, and nothing
\* closes the one this.fileWatcher held
WatchersAfterInit(kind, threw) ==
    IF kind = "init" /\ enableFileWatching /\ ~threw
    THEN [open |-> watchers.open + 1, current |-> TRUE]
    ELSE watchers

\* what follows scanAudioFiles in its caller, the Map being m: refresh() emits
\* 'refresh'; initialize() starts the watcher and rejects if that throws
AfterScan(kind, threw, m) ==
    /\ fileWatcher' = WatcherAfterInit(kind, threw)
    /\ watchers' = WatchersAfterInit(kind, threw)
    /\ initState' = IF kind = "init"
                    THEN (IF threw THEN "failed" ELSE "done")
                    ELSE initState
    /\ effects' = IF kind = "refresh" THEN RefreshEmits(m)
                  ELSE IF threw THEN Rejects("initialize", "watch") ELSE <<>>

\* the name of the operation of a scan task
CallName(kind) == IF kind = "init" THEN "initialize" ELSE "refresh"

\* fs.readdir has answered
ReaddirDone(t) ==
    /\ ~Busy
    /\ tasks[t].kind \in {"init", "refresh"} /\ tasks[t].pc = "readdir"
    /\ IF ScanFails(dir)
       THEN \* scanAudioFiles throws 'Failed to scan audio directory'
            /\ tasks' = [tasks EXCEPT ![t] = NoTask]
            /\ initState' = IF tasks[t].kind = "init" THEN "failed" ELSE initState
            /\ effects' = Rejects(CallName(tasks[t].kind), "scan")
            /\ UNCHANGED << fileWatcher, watchers >>
       ELSE IF ScanCandidates = <<>>
       THEN \* Promise.allSettled([]) : nothing to set, the caller goes on
            /\ tasks' = [tasks EXCEPT ![t] = NoTask]
            /\ \E threw \in Throws(tasks[t].kind) :
                  AfterScan(tasks[t].kind, threw, audioFiles)
       ELSE /\ tasks' = [tasks EXCEPT ![t].pc = "stat",
                                      ![t].files = ScanCandidates,
                                      ![t].io = [i \in DOMAIN ScanCandidates |-> QueuedCall]]
            /\ effects' = <<>>
            /\ UNCHANGED << initState, fileWatcher, watchers >>
    /\ UNCHANGED << disk, dir, audioFiles, enableFileWatching, app, held, now, fsOps,
                    listeners, quiet >>

\* what the fs.stat of a call answers: what the thread pool found if it ran
\* before the last change of the file, else what is on disk now
StatsSeen(t, i) ==
    IF tasks[t].io[i].stats # NoStat THEN tasks[t].io[i].stats
    ELSE disk[tasks[t].files[i]]

\* the values Date.now() may return next
Clock == { ts \in {now, now + 1} : ts <= MaxTime }

\* the fs.stat callback: createAudioFileMetadata runs to its return
StatDone(t, i) ==
    /\ ~Busy
    /\ tasks[t].pc = "stat"
    /\ i \in DOMAIN tasks[t].io
    /\ tasks[t].io[i].st = "queued"
    /\ \E ts \in Clock :
        /\ now' = ts
        /\ tasks' = [tasks EXCEPT ![t].io[i] =
                        [st |-> "done", stats |-> StatsSeen(t, i),
                         value |-> createAudioFileMetadata(
                                       tasks[t].files[i], StatsSeen(t, i), ts)]]
    /\ effects' = <<>>
    /\ UNCHANGED << disk, dir, audioFiles, fileWatcher, enableFileWatching, app, held,
                    initState, fsOps, listeners, watchers, quiet >>

\* audioFileResults.forEach: every fulfilled, non-null value is set
RECURSIVE SetAll(_, _, _)
SetAll(m, io, i) ==
    IF i > Len(io) THEN m
    ELSE SetAll(IF io[i].value # Null THEN MapSet(m, io[i].value) ELSE m, io, i + 1)

\* the Map after scanAudioFiles' forEach
ScanResult(m, io) == SetAll(m, io, 1)

\* Promise.allSettled has resolved: the results are set into the Map, then
\* refresh() emits 'refresh' or initialize() starts the watcher
ScanCommit(t) ==
    /\ Settled(t)
    /\ tasks[t].kind \in {"init", "refresh"}
    /\ audioFiles' = AfterEmit(listeners, ScanResult(audioFiles, tasks[t].io))
    /\ quiet' = AfterEmit(FALSE, ScanResult(quiet, tasks[t].io))
    /\ \E threw \in Throws(tasks[t].kind) :
          AfterScan(tasks[t].kind, threw, ScanResult(audioFiles, tasks[t].io))
    /\ tasks' = [tasks EXCEPT ![t] = NoTask]
    /\ UNCHANGED << disk, dir, enableFileWatching, app, held, now, fsOps, listeners >>

(***************************************************************************)
(* The watcher's handlers.                                                 *)
(***************************************************************************)
\* handleFileSystemEvent up to its first await (add, change) or to its end
\* (unlink, unsupported names), from the Map m and the suspended operations tk
handleFileSystemEvent(event, filePath, m, tk) ==
    LET filename == basename(filePath)
        fileToRemove == FindByFilename(m, filename)
        quietToRemove == FindByFilename(quiet, filename)
    IN  IF ~isSupportedAudioFile(filename)
        THEN /\ audioFiles' = m
             /\ tasks' = tk
             /\ effects' = <<>>
             /\ UNCHANGED quiet
        ELSE IF event \in {"add", "change"}
        THEN /\ FreeTasks # {}
             /\ tasks' = [tk EXCEPT ![FirstFree] =
                             [kind |-> "event", pc |-> "stat", event |-> event,
                              files |-> << filename >>, io |-> << QueuedCall >>]]
             /\ audioFiles' = m
             /\ effects' = <<>>
             /\ UNCHANGED quiet
        ELSE /\ audioFiles' = IF fileToRemove # Null
                              THEN AfterEmit(listeners, MapDelete(m, fileToRemove.id))
                              ELSE m
             /\ quiet' = IF quietToRemove # Null
                         THEN AfterEmit(FALSE, MapDelete(quiet, quietToRemove.id))
                         ELSE quiet
             /\ tasks' = tk
             /\ effects' = IF fileToRemove # Null
                           THEN FileChange("unlink", filePath, <<>>)
                           ELSE <<>>

\* chokidar reports a change of the directory to the listeners registered by
\* startFileWatching, unless no watcher runs or the path is ignored
WatcherEmits(event, filename, m, tk) ==
    LET filePath == JoinPath(audioDirectory, filename)
    IN  IF watchers.open > 0 /\ ~Ignored(filePath)
        THEN handleFileSystemEvent(event, filePath, m, tk)
        ELSE /\ audioFiles' = m
             /\ tasks' = tk
             /\ effects' = <<>>
             /\ UNCHANGED quiet

\* what an add or change handler emits once createAudioFileMetadata has
\* returned audioFile: 'fileChange' inside `if (audioFile)`
HandlerEmits_Always(event, filePath, audioFile) ==
    FileChange(event, filePath, IF audioFile # Null THEN << audioFile >> ELSE <<>>)

HandlerEmits(event, filePath, audioFile) ==
    IF audioFile # Null THEN FileChange(event, filePath, << audioFile >>) ELSE <<>>

\* the continuation of an add or change handler after createAudioFileMetadata
HandlerCommit(t) ==
    /\ Settled(t)
    /\ tasks[t].kind = "event"
    /\ audioFiles' = IF tasks[t].io[1].value # Null
                     THEN AfterEmit(listeners, MapSet(audioFiles, tasks[t].io[1].value))
                     ELSE audioFiles
    /\ quiet' = IF tasks[t].io[1].value # Null
                THEN AfterEmit(FALSE, MapSet(quiet, tasks[t].io[1].value))
                ELSE quiet
    /\ effects' = HandlerEmits(tasks[t].event,
                               JoinPath(audioDirectory, tasks[t].files[1]),
                               tasks[t].io[1].value)
    /\ tasks' = [tasks EXCEPT ![t] = NoTask]
    /\ UNCHANGED << disk, dir, fileWatcher, enableFileWatching, app, held, initState, now, fsOps,
                    listeners, watchers >>

(***************************************************************************)
(* The environment: other processes write to the directory.                *)
(***************************************************************************)
DirExists == dir \in {"present", "unlistable"}

\* the queued fs.stat calls on f that the thread pool has not performed yet
QueuedOn(f) ==
    { c \in TaskIds \X (1..Len(Listing)) :
        /\ tasks[c[1]].pc = "stat"
        /\ c[2] \in DOMAIN tasks[c[1]].io
        /\ tasks[c[1]].files[c[2]] = f
        /\ tasks[c[1]].io[c[2]].st = "queued"
        /\ tasks[c[1]].io[c[2]].stats = NoStat }

\* the calls of `done` were performed before f changes: they keep what they found
Performed(done, f) ==
    [t \in TaskIds |->
        [tasks[t] EXCEPT !.io =
            [i \in DOMAIN tasks[t].io |->
                IF << t, i >> \in done
                THEN [tasks[t].io[i] EXCEPT !.stats = disk[f]]
                ELSE tasks[t].io[i]]]]

\* f changes to what, after the thread pool has performed some of the queued
\* stats on it, and the watcher reports event
FsWrite(f, what, event) ==
    /\ ~Busy
    /\ fsOps < MaxFsOps
    /\ DirExists
    /\ disk' = [disk EXCEPT ![f] = what]
    /\ fsOps' = fsOps + 1
    /\ \E done \in SUBSET QueuedOn(f) :
          WatcherEmits(event, f, audioFiles, Performed(done, f))
    /\ UNCHANGED << dir, fileWatcher, enableFileWatching, app, held, initState, now,
                    listeners, watchers >>

\* a file is created
FsAdd(f, size) ==
    /\ disk[f].kind = "enoent"
    /\ FsWrite(f, File(size), "add")

\* a file is rewritten
FsChange(f, size) ==
    /\ disk[f].kind = "file"
    /\ FsWrite(f, File(size), "change")

\* a file is deleted
FsUnlink(f) ==
    /\ disk[f].kind = "file"
    /\ FsWrite(f, NoEnt, "unlink")

\* the directory's read permission is taken away or given back
FsChmod ==
    /\ ~Busy
    /\ fsOps < MaxFsOps
    /\ DirExists
    /\ dir' = IF dir = "present" THEN "unlistable" ELSE "present"
    /\ fsOps' = fsOps + 1
    /\ effects' = <<>>
    /\ UNCHANGED << disk, audioFiles, fileWatcher, enableFileWatching, app, held, initState,
                    tasks, now, listeners, watchers, quiet >>

\* what the watcher's 'error' listener does to the Map: nothing
OnWatcherError_Clears(m) == <<>>

OnWatcherError(m) == m

\* the watcher emits 'error' (counted with the changes of the directory):
\* the listener logs it
WatcherError ==
    /\ ~Busy
    /\ fsOps < MaxFsOps
    /\ watchers.open > 0
    /\ fsOps' = fsOps + 1
    /\ audioFiles' = OnWatcherError(audioFiles)
    /\ quiet' = OnWatcherError(quiet)
    /\ effects' = ErrorLogged
    /\ UNCHANGED << disk, dir, fileWatcher, enableFileWatching, app, held, initState, tasks, now,
                    listeners, watchers >>

(***************************************************************************)
(* Subscribers and cleanup().                                              *)
(***************************************************************************)
\* a caller subscribes a listener: service.on('fileChange' | 'refresh', fn)
Subscribe ==
    /\ ~Busy
    /\ ~listeners
    /\ listeners' = TRUE
    /\ effects' = <<>>
    /\ UNCHANGED << disk, dir, audioFiles, fileWatcher, enableFileWatching, app, held, initState,
                    tasks, now, fsOps, watchers, quiet >>

\* this.audioFiles.clear() of cleanup()
CleanupClear_Keeps(m) == m

CleanupClear(m) == <<>>

\* this.removeAllListeners() of cleanup()
RemoveAllListeners(n) == FALSE

\* cleanup() is called. With a watcher in this.fileWatcher it calls close()
\* on it, which stops the watcher's events at once, and awaits the promise;
\* with none it runs to its end.
CleanupCall ==
    /\ ~Busy
    /\ IF fileWatcher
       THEN /\ FreeTasks # {}
            /\ tasks' = [tasks EXCEPT ![FirstFree] =
                            [NoTask EXCEPT !.kind = "cleanup", !.pc = "close"]]
            /\ watchers' = IF watchers.current
                           THEN [open |-> watchers.open - 1, current |-> FALSE]
                           ELSE watchers
            /\ effects' = <<>>
            /\ UNCHANGED << audioFiles, quiet, listeners >>
       ELSE /\ audioFiles' = CleanupClear(audioFiles)
            /\ quiet' = CleanupClear(quiet)
            /\ listeners' = RemoveAllListeners(listeners)
            /\ effects' = Resolves("cleanup")
            /\ UNCHANGED << tasks, watchers >>
    /\ UNCHANGED << disk, dir, fileWatcher, enableFileWatching, app, held, initState, now, fsOps >>

\* close() has resolved: this.fileWatcher = null, whatever it holds by now,
\* then the Map is cleared and the listeners are removed
CleanupDone(t) ==
    /\ ~Busy
    /\ tasks[t].kind = "cleanup" /\ tasks[t].pc = "close"
    /\ fileWatcher' = FALSE
    /\ watchers' = [watchers EXCEPT !.current = FALSE]
    /\ audioFiles' = CleanupClear(audioFiles)
    /\ quiet' = CleanupClear(quiet)
    /\ listeners' = RemoveAllListeners(listeners)
    /\ tasks' = [tasks EXCEPT ![t] = NoTask]
    /\ effects' = Resolves("cleanup")
    /\ UNCHANGED << disk, dir, enableFileWatching, app, held, initState, now, fsOps >>

(***************************************************************************)
(* Callers of the read operations, and what they do with what they got.    *)
(***************************************************************************)
\* what a caller of the service has just done
Caller(name) ==
    << [type |-> "caller", name |-> name, event |-> "-", path |-> <<>>,
        payload |-> <<>>] >>

\* the Map after a caller has removed the elements of the array that
\* getAllAudioFiles returned: Array.from made that array, the Map is not it
AfterListEdit(m) == m

\* the Map after a caller has assigned value to a field of the i-th entry it
\* got from getAllAudioFiles or getAudioFileById: both hand out the object
\* the Map holds
AfterEntryWrite(m, i, field, value) ==
    IF i \in DOMAIN m THEN [m EXCEPT ![i] = [m[i] EXCEPT ![field] = value]] ELSE m

\* a caller takes list() and empties the array it got
CallerEditsList ==
    /\ ~Busy
    /\ audioFiles' = AfterListEdit(audioFiles)
    /\ quiet' = AfterListEdit(quiet)
    /\ effects' = Caller("editList")
    /\ UNCHANGED << disk, dir, fileWatcher, enableFileWatching, app, held, initState, tasks, now,
                    fsOps, listeners, watchers >>

\* a caller takes an entry and assigns to one of its fields
CallerWritesEntry(i, field, value) ==
    /\ ~Busy
    /\ i \in DOMAIN audioFiles
    /\ audioFiles' = AfterEntryWrite(audioFiles, i, field, value)
    /\ quiet' = AfterEntryWrite(quiet, i, field, value)
    /\ effects' = Caller("writeEntry")
    /\ UNCHANGED << disk, dir, fileWatcher, enableFileWatching, app, held, initState, tasks, now,
                    fsOps, listeners, watchers >>

\* the assignments callers make: entry.size = 0, entry.filename = 'r.txt'
CallerWrites == { << "size", 0 >>, << "filename", readmeTxt >> }

(***************************************************************************)
(* The HTTP layer: AudioController and the error middleware.               *)
(***************************************************************************)
\* no Range header
NoRange == << "-" >>

\* what a handler answers to the request with the route parameter param and
\* the Range header range: the status, the `success` field of a JSON body
\* ("-" when the response has no JSON body), the `data` and `count` of the
\* body, and the Content-Range and Content-Length headers it has set
Answer(name, param, range, status, success, data, count, contentRange, contentLength) ==
    << [type |-> "response", name |-> name, event |-> "-", path |-> param,
        payload |-> data, range |-> range, status |-> status, success |-> success,
        count |-> count, contentRange |-> contentRange,
        contentLength |-> contentLength] >>

Response(name, param, status, success, data, count, contentRange, contentLength) ==
    Answer(name, param, NoRange, status, success, data, count, contentRange,
           contentLength)

\* an Error without a numeric statusCode property
NoStatusCode == 0

\* errorHandler(error, req, res, next): status 500 unless the error carries
\* a numeric statusCode; the body has success: false
errorHandler(name, param, statusCode) ==
    Response(name, param, IF statusCode # NoStatusCode THEN statusCode ELSE 500,
             "false", <<>>, 0, <<>>, <<>>)

\* AudioController.getAudioFileById for the route parameter id
AudioController_getAudioFileById(id) ==
    LET audioFile == getAudioFileById(id)
    IN  IF audioFile = Null
        THEN errorHandler("getAudioFileById", id, 404)
        ELSE Response("getAudioFileById", id, 200, "true", << audioFile >>, 0, <<>>, <<>>)

HexChars == Range(DigitChars) \cup {"a","b","c","d","e","f","A","B","C","D","E","F"}

\* decodeURIComponent throws URIError: a '%' that two hex digits do not
\* follow, or an escaped byte of 0x80 and above that starts no valid UTF-8
\* sequence (the escapes drawn here are single bytes)
URIMalformed(s) ==
    \E i \in DOMAIN s :
        /\ s[i] = "%"
        /\ \/ i + 2 > Len(s)
           \/ s[i + 1] \notin HexChars
           \/ s[i + 2] \notin HexChars
           \/ s[i + 1] \notin {"0","1","2","3","4","5","6","7"}

\* the character of an escaped ASCII byte, for the bytes the requests use
UnescapedChar(h1, h2) ==
    CASE << h1, h2 >> = << "2", "0" >> -> " "
      [] << h1, h2 >> = << "2", "5" >> -> "%"
      [] << h1, h2 >> \in { << "2", "E" >>, << "2", "e" >> } -> "."
      [] << h1, h2 >> = << "6", "1" >> -> "a"
      [] OTHER -> "?"

\* decodeURIComponent of a string that is not malformed
RECURSIVE decodeURIComponent(_)
decodeURIComponent(s) ==
    IF s = <<>> THEN <<>>
    ELSE IF Head(s) = "%"
    THEN << UnescapedChar(s[2], s[3]) >> \o decodeURIComponent(SubSeq(s, 4, Len(s)))
    ELSE << Head(s) >> \o decodeURIComponent(Tail(s))

IsDigit(c) == c \in Range(DigitChars)

\* the length of the run of digits of s that starts at position i
RECURSIVE DigitRun(_, _)
DigitRun(s, i) ==
    IF i > Len(s) \/ ~IsDigit(s[i]) THEN 0 ELSE 1 + DigitRun(s, i + 1)

BytesEq == <<"b","y","t","e","s","=">>

\* /bytes=(\d+)-(\d*)/ matches s at position i
RangeMatchesAt(s, i) ==
    /\ i + 5 <= Len(s)
    /\ SubSeq(s, i, i + 5) = BytesEq
    /\ DigitRun(s, i + 6) >= 1
    /\ i + 6 + DigitRun(s, i + 6) <= Len(s)
    /\ s[i + 6 + DigitRun(s, i + 6)] = "-"

\* range.match(/bytes=(\d+)-(\d*)/): the two groups of the first match, or Null
rangeMatch(s) ==
    IF \E i \in DOMAIN s : RangeMatchesAt(s, i)
    THEN LET i == CHOOSE k \in DOMAIN s :
                      RangeMatchesAt(s, k) /\ \A j \in 1..(k - 1) : ~RangeMatchesAt(s, j)
             d1 == DigitRun(s, i + 6)
             d2 == DigitRun(s, i + 7 + d1)
         IN  [first |-> SubSeq(s, i + 6, i + 5 + d1),
              second |-> SubSeq(s, i + 7 + d1, i + 6 + d1 + d2)]
    ELSE Null

\* parseInt(s, 10) of a string of digits
RECURSIVE parseInt(_)
parseInt(s) ==
    IF s = <<>> THEN 0
    ELSE 10 * parseInt(SubSeq(s, 1, Len(s) - 1))
         + (CHOOSE d \in 0..9 : DigitChars[d + 1] = s[Len(s)])

\* `bytes ${start}-${end}/${audioFile.size}`
ContentRange(start, end, size) ==
    <<"b","y","t","e","s"," ">> \o NumberToString(start) \o <<"-">>
        \o NumberToString(end) \o <<"/">> \o NumberToString(size)

\* AudioController.handleRangeRequest. fs.createReadStream throws
\* ERR_OUT_OF_RANGE when start > end, before any header of the 206 is set;
\* the catch answers 500. Content-Length is then the one serveAudioFile set.
handleRangeRequest(audioFile, range, param) ==
    LET m == rangeMatch(range)
        start == parseInt(m.first)
        end == IF m.second # <<>> THEN parseInt(m.second) ELSE audioFile.size - 1
        wholeLength == NumberToString(audioFile.size)
    IN  IF m = Null
        THEN Answer("serveAudioFile", param, range, 416, "-", <<>>, 0, <<>>, wholeLength)
        ELSE IF start >= audioFile.size \/ end >= audioFile.size
        THEN Answer("serveAudioFile", param, range, 416, "-", <<>>, 0, <<>>, wholeLength)
        ELSE IF start > end
        THEN Answer("serveAudioFile", param, range, 500, "-", <<>>, 0, <<>>, wholeLength)
        ELSE Answer("serveAudioFile", param, range, 206, "-", << audioFile >>, 0,
                      ContentRange(start, end, audioFile.size),
                      NumberToString((end - start) + 1))

\* AudioController.serveAudioFile for the route parameter filename (as Express
\* hands it over, already decoded once) and the Range header
AudioController_serveAudioFile(filename, range) ==
    IF URIMalformed(filename)
    THEN errorHandler("serveAudioFile", filename, NoStatusCode)
    ELSE LET audioFile == FindByFilename(getAllAudioFiles, decodeURIComponent(filename))
         IN  IF audioFile = Null
             THEN errorHandler("serveAudioFile", filename, 404)
             ELSE IF range # NoRange /\ range # <<>>   \* `if (range)`
             THEN handleRangeRequest(audioFile, range, filename)
             ELSE Answer("serveAudioFile", filename, range, 200, "-", << audioFile >>,
                         0, <<>>, NumberToString(audioFile.size))

\* the ids and filenames the requests ask for
RequestedIds == { generateAudioFileId(spacedMp3, 1), underMp3 }

percentMp3 == <<"1","0","0","%",".","m","p","3">>
escapedMp3 == <<"a","%","2","0","b",".","m","p","3">>

RequestedFilenames == { spacedMp3, underMp3, percentMp3, escapedMp3 }

\* the Range headers the requests carry, for files of maxFileSize bytes
RangeHeaders ==
    { NoRange,
      BytesEq \o <<"0","-">>,
      BytesEq \o <<"0","-","0">>,
      BytesEq \o <<"5","-","2">>,
      BytesEq \o <<"7","-">> \o NumberToString(maxFileSize - 1),
      BytesEq \o NumberToString(maxFileSize) \o <<"-">>,
      BytesEq \o <<"0","-">> \o NumberToString(maxFileSize),
      BytesEq \o <<"-","5">>,
      <<"i","t","e","m","s","=","0","-","1">>,
      <<>> }

\* GET /api/audio-files/:id
HttpGetAudioFileById(id) ==
    /\ ~Busy
    /\ effects' = AudioController_getAudioFileById(id)
    /\ UNCHANGED << disk, dir, audioFiles, fileWatcher, enableFileWatching, app, held, initState,
                    tasks, now, fsOps, listeners, watchers, quiet >>

\* GET /api/audio/:filename
HttpServeAudioFile(filename, range) ==
    /\ ~Busy
    /\ effects' = AudioController_serveAudioFile(filename, range)
    /\ UNCHANGED << disk, dir, audioFiles, fileWatcher, enableFileWatching, app, held, initState,
                    tasks, now, fsOps, listeners, watchers, quiet >>

\* AudioController.getAudioFiles: the two reads follow each other with no
\* await between them
AudioController_getAudioFiles ==
    LET audioFiles_ == getAllAudioFiles
        count == getAudioFileCount
    IN  Response("getAudioFiles", <<>>, 200, "true", audioFiles_, count, <<>>, <<>>)

\* AudioController.refreshAudioFiles once `await refresh()` has settled with
\* outcome (what refresh() emitted last, or its rejection): the same two reads,
\* or next(error)
AudioController_refreshAudioFiles(outcome) ==
    LET audioFiles_ == getAllAudioFiles
        count == getAudioFileCount
    IN  IF outcome.type = "reject"
        THEN errorHandler("refreshAudioFiles", <<>>, NoStatusCode)
        ELSE Response("refreshAudioFiles", <<>>, 200, "true", audioFiles_, count,
                      <<>>, <<>>)

\* GET /api/audio-files
HttpGetAudioFiles ==
    /\ ~Busy
    /\ effects' = AudioController_getAudioFiles
    /\ UNCHANGED << disk, dir, audioFiles, fileWatcher, enableFileWatching, app, held, initState,
                    tasks, now, fsOps, listeners, watchers, quiet >>

\* POST /api/audio-files/refresh, after its call of refresh(): the promise of
\* refresh() has just settled and the controller's continuation runs in the
\* same turn of the event loop, before any other callback
HttpRefreshAnswer ==
    /\ ~Busy
    /\ effects # <<>>
    /\ effects[1].name = "refresh"
    /\ effects[1].type \in {"emit", "reject"}
    /\ effects' = AudioController_refreshAudioFiles(effects[1])
    /\ UNCHANGED << disk, dir, audioFiles, fileWatcher, enableFileWatching, app, held, initState,
                    tasks, now, fsOps, listeners, watchers, quiet >>

(***************************************************************************)
(* SoundboardApp: start() and the shutdown handlers it registers.          *)
(***************************************************************************)
\* the PORT and AUDIO_DIRECTORY settings the process may be started with
Ports == { 0, 3000, 65536 }
Directories == { audioDirectory, <<>>, << " " >> }

\* String.prototype.trim() === ''
IsBlank(s) == \A i \in DOMAIN s : s[i] = " "

\* validateConfig() returns (TRUE) or throws (FALSE)
validateConfig(a) ==
    /\ ~(a.port < 1 \/ a.port > 65535)
    /\ ~(maxFileSize <= 0)
    /\ ~(a.directory = <<>> \/ IsBlank(a.directory))

\* process.exit(status)
Exit(a, status) == [a EXCEPT !.phase = "exited", !.exited = TRUE, !.status = status]

\* start() is called: validateConfig(), then initialize() up to its first
\* await; when validateConfig throws, the catch calls process.exit(1)
StartCall ==
    /\ app.phase = "new"
    /\ IF validateConfig(app)
       THEN InitializeBy([app EXCEPT !.phase = "starting"])
       ELSE /\ ~Busy
            /\ app' = Exit(app, 1)
            /\ effects' = <<>>
            /\ UNCHANGED << disk, dir, audioFiles, fileWatcher, enableFileWatching,
                            initState, tasks, now, fsOps, listeners, watchers, quiet,
                            held >>

\* whether start() goes on to app.listen after `await initialize()`: only
\* when the promise resolved, a rejection goes to the catch
ListensAfter_Any(state) == TRUE

ListensAfter(state) == state = "done"

\* the rest of start(): app.listen and setupGracefulShutdown, or the catch's
\* process.exit(1)
StartContinues ==
    /\ StartPending
    /\ app' = IF ListensAfter(initState)
              THEN [app EXCEPT !.phase = "up", !.listening = TRUE]
              ELSE Exit(app, 1)
    /\ effects' = <<>>
    /\ UNCHANGED << disk, dir, audioFiles, fileWatcher, enableFileWatching, initState,
                    tasks, now, fsOps, listeners, watchers, quiet, held >>

\* the signals and events whose handlers call shutdown()
ShutdownSignals == { "SIGTERM", "SIGINT", "UNCAUGHT_EXCEPTION", "UNHANDLED_REJECTION" }

\* shutdown(signal), once setupGracefulShutdown has registered it: it logs
\* the signal and calls cleanup(), which runs to its await or to its end
Shutdown(signal) ==
    /\ app.phase = "up"
    /\ signal \in ShutdownSignals
    /\ CleanupCall

\* the promise of close() resolves. The process has one watcher, and close()
\* on a watcher that is closing returns the promise of the first call, so
\* every cleanup() that awaits resumes in this turn: this.fileWatcher = null,
\* the Map is cleared and the listeners are removed.
CloseResolves ==
    /\ ~Busy
    /\ \E t \in TaskIds : tasks[t].kind = "cleanup" /\ tasks[t].pc = "close"
    /\ fileWatcher' = FALSE
    /\ watchers' = [watchers EXCEPT !.current = FALSE]
    /\ audioFiles' = CleanupClear(audioFiles)
    /\ quiet' = CleanupClear(quiet)
    /\ listeners' = RemoveAllListeners(listeners)
    /\ tasks' = [t \in TaskIds |->
                    IF tasks[t].kind = "cleanup" THEN NoTask ELSE tasks[t]]
    /\ effects' = Resolves("cleanup")
    /\ UNCHANGED << disk, dir, enableFileWatching, app, held, initState, now, fsOps >>

\* the promise of close() rejects: every cleanup() that awaits throws at its
\* await, before it touches the field, the Map or the listeners
CloseRejects ==
    /\ ~Busy
    /\ \E t \in TaskIds : tasks[t].kind = "cleanup" /\ tasks[t].pc = "close"
    /\ tasks' = [t \in TaskIds |->
                    IF tasks[t].kind = "cleanup" THEN NoTask ELSE tasks[t]]
    /\ effects' = Rejects("cleanup", "close")
    /\ UNCHANGED << disk, dir, audioFiles, fileWatcher, enableFileWatching, app, held,
                    initState, now, fsOps, listeners, watchers, quiet >>

\* the status shutdown() exits with: 0 after `await cleanup()`, 1 in its catch
ShutdownStatus_Zero(outcome) == 0

ShutdownStatus(outcome) == IF outcome.type = "resolve" THEN 0 ELSE 1

\* the rest of shutdown(): process.exit
ShutdownExit ==
    /\ ShutdownPending
    /\ app' = Exit(app, ShutdownStatus(effects[1]))
    /\ UNCHANGED << disk, dir, audioFiles, fileWatcher, enableFileWatching, initState,
                    tasks, now, fsOps, effects, listeners, watchers, quiet, held >>

Next ==
    \/ InitializeCall
    \/ RefreshCall
    \/ \E t \in TaskIds : EnsureDirDone(t)
    \/ \E t \in TaskIds : ReaddirDone(t)
    \/ \E t \in TaskIds, i \in 1..Len(Listing) : StatDone(t, i)
    \/ \E t \in TaskIds : ScanCommit(t)
    \/ \E t \in TaskIds : HandlerCommit(t)
    \/ \E f \in Names, size \in WrittenSizes : FsAdd(f, size)
    \/ \E f \in Names, size \in WrittenSizes : FsChange(f, size)
    \/ \E f \in Names : FsUnlink(f)
    \/ FsChmod
    \/ WatcherError

Spec == Init /\ [][Next]_vars

(***************************************************************************)
(* One scan of a directory drawn from BuildDisks: refresh() has just been  *)
(* called and nothing else runs. It applies isSupportedAudioFile to every  *)
(* name and createAudioFileMetadata to every kind of file.                 *)
(***************************************************************************)
BuildStats ==
    { NoEnt, Dir, File(0), File(1), File(maxFileSize), File(maxFileSize + 1) }

BuildDisks == [Names -> BuildStats]

InitBuild ==
    /\ dir = "present"
    /\ disk \in BuildDisks
    /\ audioFiles = <<>>
    /\ fileWatcher = FALSE
    /\ enableFileWatching = TRUE
    /\ initState = "new"
    /\ tasks = [t \in TaskIds |->
                  IF t = 1 THEN [NoTask EXCEPT !.kind = "refresh", !.pc = "readdir"]
                  ELSE NoTask]
    /\ now = 1
    /\ fsOps = 0
    /\ effects = <<>>
    /\ listeners = FALSE
    /\ watchers = NoWatcher
    /\ quiet = audioFiles
    /\ app = NoApp
    /\ held = <<>>

NextBuild ==
    \/ \E t \in TaskIds : ReaddirDone(t)
    \/ \E t \in TaskIds, i \in 1..Len(Listing) : StatDone(t, i)
    \/ \E t \in TaskIds : ScanCommit(t)

SpecBuild == InitBuild /\ [][NextBuild]_vars

(***************************************************************************)
(* The service once initialize() has returned, with refresh() called only  *)
(* when no other refresh() is in progress: every entry added between the   *)
(* call of a refresh() and its end then comes from the watcher.            *)
(***************************************************************************)
\* the catalog an initialize() builds from the directory d when nothing else
\* runs and all its fs.stat callbacks run in the millisecond ts
ScannedAt(d, ts) ==
    LET files == SelectSeq(ReaddirResult(d), isSupportedAudioFile)
    IN  ScanResult(<<>>, [i \in DOMAIN files |->
                            [st |-> "done", stats |-> d[files[i]],
                             value |-> createAudioFileMetadata(files[i], d[files[i]], ts)]])

InitServing ==
    /\ dir = "present"
    /\ disk \in InitialDisks
    /\ audioFiles = ScannedAt(disk, 1)
    /\ fileWatcher = TRUE
    /\ enableFileWatching = TRUE
    /\ initState = "done"
    /\ tasks = [t \in TaskIds |-> NoTask]
    /\ now = 1
    /\ fsOps = 0
    /\ effects = <<>>
    /\ listeners = FALSE
    /\ watchers = OneWatcher
    /\ quiet = audioFiles
    /\ app = NoApp
    /\ held = <<>>

SoloRefreshCall ==
    /\ \A t \in TaskIds : tasks[t].kind # "refresh"
    /\ RefreshCall

NextServing ==
    \/ SoloRefreshCall
    \/ \E t \in TaskIds : ReaddirDone(t)
    \/ \E t \in TaskIds, i \in 1..Len(Listing) : StatDone(t, i)
    \/ \E t \in TaskIds : ScanCommit(t)
    \/ \E t \in TaskIds : HandlerCommit(t)
    \/ \E f \in Names, size \in WrittenSizes : FsAdd(f, size)
    \/ \E f \in Names, size \in WrittenSizes : FsChange(f, size)
    \/ \E f \in Names : FsUnlink(f)
    \/ FsChmod
    \/ WatcherError

SpecServing == InitServing /\ [][NextServing]_vars

(***************************************************************************)
(* The service once initialize() has returned, with at most MaxInFlight    *)
(* operations suspended at a time and at most MaxWrites changes of the     *)
(* directory; refresh() may be called at any moment.                       *)
(***************************************************************************)
WithinSmall ==
    /\ \A t \in TaskIds : t > MaxInFlight => tasks[t].kind = "none"
    /\ fsOps <= MaxWrites

\* a change of the directory, or a new operation, is still within the limits
WritesLeft == fsOps < MaxWrites
SlotLeft == \E t \in FreeTasks : t <= MaxInFlight

NextSmall ==
    \/ SlotLeft /\ RefreshCall /\ WithinSmall'
    \/ \E t \in TaskIds : ReaddirDone(t) /\ WithinSmall'
    \/ \E t \in TaskIds, i \in 1..Len(Listing) : StatDone(t, i) /\ WithinSmall'
    \/ \E t \in TaskIds : ScanCommit(t) /\ WithinSmall'
    \/ \E t \in TaskIds : HandlerCommit(t) /\ WithinSmall'
    \/ \E f \in Names, size \in WrittenSizes :
          WritesLeft /\ FsAdd(f, size) /\ WithinSmall'
    \/ \E f \in Names, size \in WrittenSizes :
          WritesLeft /\ FsChange(f, size) /\ WithinSmall'
    \/ \E f \in Names : WritesLeft /\ FsUnlink(f) /\ WithinSmall'
    \/ WritesLeft /\ FsChmod /\ WithinSmall'
    \/ WritesLeft /\ WatcherError /\ WithinSmall'

SpecSmall == InitServing /\ [][NextSmall]_vars

(***************************************************************************)
(* The service as SoundboardApp.start() drives it, within the limits of    *)
(* SpecSmall: initialize() is awaited first, and the API whose controller  *)
(* calls refresh() listens only once initialize() has resolved.  File      *)
(* watching is enabled or disabled by the configuration.                   *)
(***************************************************************************)
InitApp ==
    /\ dir \in {"present", "missing", "blocked"}
    /\ disk \in IF dir = "present" THEN InitialDisks ELSE {EmptyDisk}
    /\ audioFiles = <<>>
    /\ fileWatcher = FALSE
    /\ enableFileWatching \in BOOLEAN
    /\ initState = "new"
    /\ tasks = [t \in TaskIds |-> NoTask]
    /\ now = 1
    /\ fsOps = 0
    /\ effects = <<>>
    /\ listeners = FALSE
    /\ watchers = NoWatcher
    /\ quiet = audioFiles
    /\ app = NoApp
    /\ held = <<>>

\* this.app.listen(...) has been called: after `await initialize()` resolved
Listening == initState = "done"

NextApp ==
    \/ SlotLeft /\ InitializeCall /\ WithinSmall'
    \/ \E t \in TaskIds : EnsureDirDone(t) /\ WithinSmall'
    \/ Listening /\ SlotLeft /\ RefreshCall /\ WithinSmall'
    \/ \E t \in TaskIds : ReaddirDone(t) /\ WithinSmall'
    \/ \E t \in TaskIds, i \in 1..Len(Listing) : StatDone(t, i) /\ WithinSmall'
    \/ \E t \in TaskIds : ScanCommit(t) /\ WithinSmall'
    \/ \E t \in TaskIds : HandlerCommit(t) /\ WithinSmall'
    \/ \E f \in Names, size \in WrittenSizes :
          WritesLeft /\ FsAdd(f, size) /\ WithinSmall'
    \/ \E f \in Names, size \in WrittenSizes :
          WritesLeft /\ FsChange(f, size) /\ WithinSmall'
    \/ \E f \in Names : WritesLeft /\ FsUnlink(f) /\ WithinSmall'
    \/ WritesLeft /\ FsChmod /\ WithinSmall'
    \/ WritesLeft /\ WatcherError /\ WithinSmall'

SpecApp == InitApp /\ [][NextApp]_vars

(***************************************************************************)
(* The service once initialize() has returned, with file watching enabled  *)
(* or disabled: callers subscribe listeners, then refresh() and cleanup()  *)
(* are called at any moment, within the limits of SpecSmall.               *)
(***************************************************************************)
InitShutdown ==
    /\ dir = "present"
    /\ disk \in InitialDisks
    /\ audioFiles = ScannedAt(disk, 1)
    /\ enableFileWatching \in BOOLEAN
    /\ fileWatcher = enableFileWatching
    /\ initState = "done"
    /\ tasks = [t \in TaskIds |-> NoTask]
    /\ now = 1
    /\ fsOps = 0
    /\ effects = <<>>
    /\ listeners = FALSE
    /\ watchers = IF enableFileWatching THEN OneWatcher ELSE NoWatcher
    /\ quiet = audioFiles
    /\ app = NoApp
    /\ held = <<>>

\* nothing has been called and nothing has changed since initialize() returned
Fresh == fsOps = 0 /\ effects = <<>> /\ tasks = [t \in TaskIds |-> NoTask]

NextShutdown ==
    \/ Fresh /\ Subscribe
    \/ SlotLeft /\ RefreshCall /\ WithinSmall'
    \/ \E t \in TaskIds : ReaddirDone(t) /\ WithinSmall'
    \/ \E t \in TaskIds, i \in 1..Len(Listing) : StatDone(t, i) /\ WithinSmall'
    \/ \E t \in TaskIds : ScanCommit(t) /\ WithinSmall'
    \/ \E t \in TaskIds : HandlerCommit(t) /\ WithinSmall'
    \/ \E f \in Names, size \in WrittenSizes :
          WritesLeft /\ FsAdd(f, size) /\ WithinSmall'
    \/ \E f \in Names, size \in WrittenSizes :
          WritesLeft /\ FsChange(f, size) /\ WithinSmall'
    \/ \E f \in Names : WritesLeft /\ FsUnlink(f) /\ WithinSmall'
    \/ CleanupCall /\ WithinSmall'
    \/ \E t \in TaskIds : CleanupDone(t)

SpecShutdown == InitShutdown /\ [][NextShutdown]_vars

(***************************************************************************)
(* The service of SpecSmall behind its HTTP API: requests for an entry by  *)
(* id and for a file by filename arrive at any moment.                     *)
(***************************************************************************)
NextHttp ==
    \/ SlotLeft /\ RefreshCall /\ WithinSmall'
    \/ \E t \in TaskIds : ReaddirDone(t) /\ WithinSmall'
    \/ \E t \in TaskIds, i \in 1..Len(Listing) : StatDone(t, i) /\ WithinSmall'
    \/ \E t \in TaskIds : ScanCommit(t) /\ WithinSmall'
    \/ \E t \in TaskIds : HandlerCommit(t) /\ WithinSmall'
    \/ \E f \in Names, size \in WrittenSizes :
          WritesLeft /\ FsAdd(f, size) /\ WithinSmall'
    \/ \E f \in Names, size \in WrittenSizes :
          WritesLeft /\ FsChange(f, size) /\ WithinSmall'
    \/ \E f \in Names : WritesLeft /\ FsUnlink(f) /\ WithinSmall'
    \/ \E id \in RequestedIds : HttpGetAudioFileById(id)
    \/ \E filename \in RequestedFilenames, range \in RangeHeaders :
          HttpServeAudioFile(filename, range)

SpecHttp == InitServing /\ [][NextHttp]_vars

(***************************************************************************)
(* The service of SpecSmall with callers that change what the read         *)
(* operations returned to them.                                            *)
(***************************************************************************)
NextCaller ==
    \/ SlotLeft /\ RefreshCall /\ WithinSmall'
    \/ \E t \in TaskIds : ReaddirDone(t) /\ WithinSmall'
    \/ \E t \in TaskIds, i \in 1..Len(Listing) : StatDone(t, i) /\ WithinSmall'
    \/ \E t \in TaskIds : ScanCommit(t) /\ WithinSmall'
    \/ \E t \in TaskIds : HandlerCommit(t) /\ WithinSmall'
    \/ \E f \in Names, size \in WrittenSizes :
          WritesLeft /\ FsAdd(f, size) /\ WithinSmall'
    \/ \E f \in Names, size \in WrittenSizes :
          WritesLeft /\ FsChange(f, size) /\ WithinSmall'
    \/ \E f \in Names : WritesLeft /\ FsUnlink(f) /\ WithinSmall'
    \/ CallerEditsList
    \/ \E i \in 1..Len(Listing), w \in CallerWrites : CallerWritesEntry(i, w[1], w[2])

SpecCaller == InitServing /\ [][NextCaller]_vars

(***************************************************************************)
(* The format functions applied to an extension drawn from Extensions.     *)
(***************************************************************************)
Extensions ==
    { <<"w","a","v">>,
      <<"W","A","V">>,
      <<"W","a","v">>,
      <<"m","p","3">>,
      <<"o","g","g">>,
      <<"O","G","G">>,
      <<".","m","p","3">>,
      <<".","W","A","V">>,
      <<"m",".","p","3">>,
      <<"o","g",".","g">>,
      <<"t","x","t">>,
      <<"m","p","4">>,
      <<"w","a","v","e">>,
      <<>>,
      <<"c","o","n","s","t","r","u","c","t","o","r">>,
      <<"_","_","p","r","o","t","o","_","_">>,
      <<"t","o","s","t","r","i","n","g">> }
    \cup { << a, b, c >> : a, b, c \in {"m", "P", "3", "."} }

\* a caller is about to pass extension to the format functions
FormatCall(extension) ==
    << [type |-> "call", name |-> "format", event |-> "-", path |-> extension,
        payload |-> <<>>] >>

\* what isSupportedAudioFormat and getMimeType have returned for extension
FormatReturn(extension) ==
    << [type |-> "return", name |-> "format", event |-> "-", path |-> extension,
        payload |-> <<>>, supported |-> isSupportedAudioFormat(extension),
        mimeType |-> getMimeType(extension)] >>

InitFormats ==
    /\ dir = "present"
    /\ disk = EmptyDisk
    /\ audioFiles = <<>>
    /\ fileWatcher = FALSE
    /\ enableFileWatching = TRUE
    /\ initState = "new"
    /\ tasks = [t \in TaskIds |-> NoTask]
    /\ now = 1
    /\ fsOps = 0
    /\ effects \in { FormatCall(e) : e \in Extensions }
    /\ listeners = FALSE
    /\ watchers = NoWatcher
    /\ quiet = audioFiles
    /\ app = NoApp
    /\ held = <<>>

FormatCheck ==
    /\ effects[1].type = "call"
    /\ effects' = FormatReturn(effects[1].path)
    /\ UNCHANGED << disk, dir, audioFiles, fileWatcher, enableFileWatching, app, held, initState,
                    tasks, now, fsOps, listeners, watchers, quiet >>

NextFormats == FormatCheck

SpecFormats == InitFormats /\ [][NextFormats]_vars

(***************************************************************************)
(* The lifecycle of the service: initialize() and cleanup() called at any  *)
(* moment and any number of times, on a directory that does not change.    *)
(***************************************************************************)
NextLifecycle ==
    \/ InitializeCall
    \/ InitializeAgain
    \/ \E t \in TaskIds : EnsureDirDone(t)
    \/ \E t \in TaskIds : ReaddirDone(t)
    \/ \E t \in TaskIds, i \in 1..Len(Listing) : StatDone(t, i)
    \/ \E t \in TaskIds : ScanCommit(t)
    \/ CleanupCall
    \/ \E t \in TaskIds : CleanupDone(t)

SpecLifecycle == InitApp /\ [][NextLifecycle]_vars

(***************************************************************************)
(* The service of SpecSmall behind the list-files and force-refresh        *)
(* endpoints: every refresh() is the endpoint's, and the directory may     *)
(* lose its read permission while it runs.                                 *)
(***************************************************************************)
NextApi ==
    \/ SlotLeft /\ RefreshCall /\ WithinSmall'
    \/ \E t \in TaskIds : ReaddirDone(t) /\ WithinSmall'
    \/ \E t \in TaskIds, i \in 1..Len(Listing) : StatDone(t, i) /\ WithinSmall'
    \/ \E t \in TaskIds : ScanCommit(t) /\ WithinSmall'
    \/ \E t \in TaskIds : HandlerCommit(t) /\ WithinSmall'
    \/ \E f \in Names, size \in WrittenSizes :
          WritesLeft /\ FsAdd(f, size) /\ WithinSmall'
    \/ \E f \in Names, size \in WrittenSizes :
          WritesLeft /\ FsChange(f, size) /\ WithinSmall'
    \/ \E f \in Names : WritesLeft /\ FsUnlink(f) /\ WithinSmall'
    \/ WritesLeft /\ FsChmod /\ WithinSmall'
    \/ HttpGetAudioFiles
    \/ HttpRefreshAnswer

SpecApi == InitServing /\ [][NextApi]_vars

(***************************************************************************)
(* The process from `new SoundboardApp().start()` to its exit, within the  *)
(* limits of SpecSmall: the configuration is valid or not, the directory   *)
(* is present, missing or cannot be created, file watching is enabled or   *)
(* disabled; once the server listens, refresh() is called, files change    *)
(* and signals arrive at any moment.                                       *)
(***************************************************************************)
InitProcess ==
    /\ dir \in {"present", "missing", "blocked"}
    /\ disk \in IF dir = "present" THEN InitialDisks ELSE {EmptyDisk}
    /\ audioFiles = <<>>
    /\ fileWatcher = FALSE
    /\ enableFileWatching \in BOOLEAN
    /\ initState = "new"
    /\ tasks = [t \in TaskIds |-> NoTask]
    /\ now = 1
    /\ fsOps = 0
    /\ effects = <<>>
    /\ listeners = FALSE
    /\ watchers = NoWatcher
    /\ quiet = <<>>
    /\ app \in { [NoApp EXCEPT !.phase = "new", !.port = p, !.directory = d] :
                    p \in Ports, d \in Directories }
    /\ held = <<>>

NextProcess ==
    \/ SlotLeft /\ StartCall /\ WithinSmall'
    \/ \E t \in TaskIds : EnsureDirDone(t) /\ WithinSmall'
    \/ \E t \in TaskIds : ReaddirDone(t) /\ WithinSmall'
    \/ \E t \in TaskIds, i \in 1..Len(Listing) : StatDone(t, i) /\ WithinSmall'
    \/ \E t \in TaskIds : ScanCommit(t) /\ WithinSmall'
    \/ StartContinues
    \/ app.listening /\ SlotLeft /\ RefreshCall /\ WithinSmall'
    \/ \E t \in TaskIds : HandlerCommit(t) /\ WithinSmall'
    \/ \E f \in Names, size \in WrittenSizes :
          WritesLeft /\ FsAdd(f, size) /\ WithinSmall'
    \/ \E f \in Names, size \in WrittenSizes :
          WritesLeft /\ FsChange(f, size) /\ WithinSmall'
    \/ \E f \in Names : WritesLeft /\ FsUnlink(f) /\ WithinSmall'
    \/ \E signal \in ShutdownSignals : Shutdown(signal) /\ WithinSmall'
    \/ CloseResolves
    \/ CloseRejects
    \/ ShutdownExit

SpecProcess == InitProcess /\ [][NextProcess]_vars

(***************************************************************************)
(* The service once initialize() has returned, with callers that take      *)
(* list() and call refresh() at any moment, also while an earlier          *)
(* refresh() is in progress.  The files of the directory do not change;    *)
(* its read permission does.                                               *)
(***************************************************************************)
NextRefresh ==
    \/ ListThenRefresh
    \/ \E t \in TaskIds : ReaddirDone(t)
    \/ \E t \in TaskIds, i \in 1..Len(Listing) : StatDone(t, i)
    \/ \E t \in TaskIds : ScanCommit(t)
    \/ FsChmod

SpecRefresh == InitServing /\ [][NextRefresh]_vars

(***************************************************************************)
(* The same service when refresh() is called only while no other refresh() *)
(* is in progress, and the list endpoint is read at any moment: between    *)
(* the call of a refresh() and its end nothing else writes to the catalog. *)
(***************************************************************************)
ListThenRefreshAlone ==
    /\ \A t \in TaskIds : tasks[t].kind # "refresh"
    /\ ListThenRefresh

NextRefreshAlone ==
    \/ ListThenRefreshAlone
    \/ \E t \in TaskIds : ReaddirDone(t)
    \/ \E t \in TaskIds, i \in 1..Len(Listing) : StatDone(t, i)
    \/ \E t \in TaskIds : ScanCommit(t)
    \/ FsChmod
    \/ HttpGetAudioFiles

SpecRefreshAlone == InitServing /\ [][NextRefreshAlone]_vars

(***************************************************************************)
(* The service once initialize() has started the watcher: refresh() is     *)
(* called, files change and cleanup() is called at any moment, also while  *)
(* a refresh() or a handler is suspended.                                  *)
(***************************************************************************)
NextTeardown ==
    \/ RefreshCall
    \/ \E t \in TaskIds : ReaddirDone(t)
    \/ \E t \in TaskIds, i \in 1..Len(Listing) : StatDone(t, i)
    \/ \E t \in TaskIds : ScanCommit(t)
    \/ \E t \in TaskIds : HandlerCommit(t)
    \/ \E f \in Names, size \in WrittenSizes : FsAdd(f, size)
    \/ \E f \in Names, size \in WrittenSizes : FsChange(f, size)
    \/ \E f \in Names : FsUnlink(f)
    \/ CleanupCall
    \/ \E t \in TaskIds : CleanupDone(t)

SpecTeardown == InitServing /\ [][NextTeardown]_vars

(***************************************************************************)
(* Vocabulary of the properties.                                           *)
(***************************************************************************)
\* the filenames the catalog holds
Filenames(m) == { m[i].filename : i \in DOMAIN m }

\* the ids under which the catalog holds an entry for filename
IdsOf(m, filename) == { m[i].id : i \in { j \in DOMAIN m : m[j].filename = filename } }

\* the task is a scan (of initialize or refresh)
IsScan(t) == tasks[t].kind \in {"init", "refresh"}

\* the calls of a task that built an entry
Built(t) == { i \in DOMAIN tasks[t].io :
                tasks[t].io[i].st = "done" /\ tasks[t].io[i].value # Null }

\* a filename whose first character is '.'
IsHidden(filename) == Len(filename) > 0 /\ Head(filename) = "."

\* the extension of a filename is one of wav, mp3, ogg in any case
HasSupportedExtension(filename) ==
    \E e \in supportedFormats : toLowerCase(Slice1(extname(filename))) = e

(***************************************************************************)
(* C1. Atomic replace: a list() taken while a refresh() is in progress     *)
(* returns the complete old catalog or the complete new one. As long as    *)
(* the refresh has produced nothing, that is the old catalog: the call of  *)
(* refresh() itself leaves list() as it was.                               *)
(***************************************************************************)
RefreshStarts ==
    \E t \in TaskIds : tasks[t].kind = "none" /\ tasks'[t].kind = "refresh"

C1_AtomicReplace == [][RefreshStarts => audioFiles' = audioFiles]_vars

(***************************************************************************)
(* C2. No two entries of the catalog have the same filename.               *)
(***************************************************************************)
C2_UniqueFilenames ==
    \A i, j \in DOMAIN audioFiles :
        i # j => audioFiles[i].filename # audioFiles[j].filename

(***************************************************************************)
(* C3. Watcher removal: when the unlink handler has run for a tracked      *)
(* filename, the catalog holds no entry with that filename and none of the *)
(* ids its entries had.                                                    *)
(***************************************************************************)
UnlinkHandled(f) ==
    /\ disk[f].kind = "file" /\ disk'[f] = NoEnt
    /\ fileWatcher
    /\ f \in Filenames(audioFiles)

C3_WatcherRemoval ==
    [][\A f \in Names :
          UnlinkHandled(f) =>
              /\ f \notin Filenames(audioFiles')
              /\ \A id \in IdsOf(audioFiles, f) : MapGet(audioFiles', id) = Null]_vars

(***************************************************************************)
(* C4. Watcher upsert: when the handler of an add event has built the      *)
(* entry of a file whose filename is not in the catalog, its commit makes  *)
(* count() one larger and list() holds an entry with that filename.        *)
(***************************************************************************)
AddCommits(t) ==
    /\ Settled(t)
    /\ tasks[t].kind = "event" /\ tasks[t].event = "add"
    /\ tasks[t].io[1].value # Null
    /\ tasks[t].files[1] \notin Filenames(audioFiles)

C4_WatcherUpsert ==
    [][\A t \in TaskIds :
          AddCommits(t) =>
              /\ Len(audioFiles') = Len(audioFiles) + 1
              /\ tasks[t].files[1] \in Filenames(audioFiles')]_vars

(***************************************************************************)
(* C5. Filtering: the catalog never holds an entry for a file whose name   *)
(* starts with '.' or whose extension is not wav, mp3 or ogg.              *)
(***************************************************************************)
C5_Filtering ==
    \A i \in DOMAIN audioFiles :
        /\ ~IsHidden(audioFiles[i].filename)
        /\ HasSupportedExtension(audioFiles[i].filename)

(***************************************************************************)
(* C6. Every entry of the catalog has an extension among wav, mp3, ogg and *)
(* a size with 0 < size <= maxFileSize.                                    *)
(***************************************************************************)
C6_EntriesValid ==
    \A i \in DOMAIN audioFiles :
        /\ audioFiles[i].extension \in supportedFormats
        /\ 0 < audioFiles[i].size
        /\ audioFiles[i].size <= maxFileSize

\* the catalog holds the entry of a file of exactly maxFileSize bytes whose
\* extension is written in upper case
C6_Witness ==
    \E i \in DOMAIN audioFiles :
        /\ audioFiles[i].filename = hiddenOgg
        /\ audioFiles[i].extension = <<"o","g","g">>
        /\ audioFiles[i].size = maxFileSize

(***************************************************************************)
(* C7. Size boundary: a metadata build yields an entry exactly when fs.stat*)
(* found a regular file with 0 < size <= maxFileSize; so maxFileSize bytes *)
(* are accepted, maxFileSize + 1 bytes and 0 bytes are rejected.           *)
(***************************************************************************)
C7_SizeBoundary ==
    \A t \in TaskIds : \A i \in DOMAIN tasks[t].io :
        tasks[t].io[i].st = "done" =>
            ( tasks[t].io[i].value # Null
              <=> /\ tasks[t].io[i].stats.kind = "file"
                  /\ 0 < tasks[t].io[i].stats.size
                  /\ tasks[t].io[i].stats.size <= maxFileSize )

\* builds of files of maxFileSize, maxFileSize + 1 and 0 bytes have finished
C7_Witness ==
    LET done == { c \in TaskIds \X (1..Len(Listing)) :
                    /\ c[2] \in DOMAIN tasks[c[1]].io
                    /\ tasks[c[1]].io[c[2]].st = "done" }
    IN  /\ \E c \in done : /\ tasks[c[1]].io[c[2]].stats = File(maxFileSize)
                           /\ tasks[c[1]].io[c[2]].value # Null
        /\ \E c \in done : /\ tasks[c[1]].io[c[2]].stats = File(maxFileSize + 1)
                           /\ tasks[c[1]].io[c[2]].value = Null
        /\ \E c \in done : /\ tasks[c[1]].io[c[2]].stats = File(0)
                           /\ tasks[c[1]].io[c[2]].value = Null

(***************************************************************************)
(* C8. Isolation: a scan whose N builds succeeded and whose other builds   *)
(* failed adds exactly N entries: started on an empty catalog, it leaves   *)
(* count() = N.                                                            *)
(***************************************************************************)
C8_Isolation ==
    [][\A t \in TaskIds :
          (Settled(t) /\ IsScan(t) /\ audioFiles = <<>>) =>
              Len(audioFiles') = Cardinality(Built(t))]_vars

(***************************************************************************)
(* C9. Uniqueness: the entries one scan builds for distinct files have     *)
(* distinct ids.                                                           *)
(***************************************************************************)
C9_UniqueIds ==
    \A t \in TaskIds :
        IsScan(t) =>
            \A i, j \in Built(t) :
                i # j => tasks[t].io[i].value.id # tasks[t].io[j].value.id

(***************************************************************************)
(* C10. A refresh and a concurrent watcher upsert do not merge: when an    *)
(* upsert has committed since refresh() was called (under SpecServing,     *)
(* that is when the catalog is not empty at the refresh's commit), the     *)
(* catalog right after the refresh commits is exactly its scan result.     *)
(***************************************************************************)
C10_LaterCommitWins ==
    [][\A t \in TaskIds :
          (Settled(t) /\ tasks[t].kind = "refresh" /\ audioFiles # <<>>) =>
              audioFiles' = ScanResult(<<>>, tasks[t].io)]_vars

\* the states InitServing starts from are states initialize() leaves
ServingReached ==
    /\ initState = "done" /\ fileWatcher /\ dir = "present"
    /\ tasks = [t \in TaskIds |-> NoTask]
    /\ now = 1 /\ fsOps = 0
    /\ audioFiles = ScannedAt(disk, 1)
    /\ audioFiles # <<>>

(***************************************************************************)
(* C11. Events for one filename take effect in the order delivered: when   *)
(* an add or change event was delivered and then the unlink of the same    *)
(* file was handled (the file and its entry are gone), the earlier         *)
(* handler, finishing afterwards, leaves no entry for that filename.       *)
(***************************************************************************)
FinishesAfterUnlink(t) ==
    /\ Settled(t)
    /\ tasks[t].kind = "event"
    /\ disk[tasks[t].files[1]].kind = "enoent"
    /\ tasks[t].files[1] \notin Filenames(audioFiles)

C11_EventOrder ==
    [][\A t \in TaskIds :
          FinishesAfterUnlink(t) => tasks[t].files[1] \notin Filenames(audioFiles')]_vars

(***************************************************************************)
(* C12. A change event for a tracked file whose rebuild succeeds updates   *)
(* the entry in place: count() stays the same, the catalog holds the       *)
(* rebuilt entry, and getById of a previous id other than the rebuilt      *)
(* entry's id is absent.                                                   *)
(***************************************************************************)
ChangeCommits(t) ==
    /\ Settled(t)
    /\ tasks[t].kind = "event" /\ tasks[t].event = "change"
    /\ tasks[t].io[1].value # Null
    /\ tasks[t].files[1] \in Filenames(audioFiles)

C12_ChangeInPlace ==
    [][\A t \in TaskIds :
          ChangeCommits(t) =>
              /\ Len(audioFiles') = Len(audioFiles)
              /\ MapGet(audioFiles', tasks[t].io[1].value.id) = tasks[t].io[1].value
              /\ \A id \in IdsOf(audioFiles, tasks[t].files[1]) \ {tasks[t].io[1].value.id} :
                    MapGet(audioFiles', id) = Null]_vars

(***************************************************************************)
(* C13. Stale-but-valid: when the metadata build of an add or change event *)
(* fails, the handler leaves the catalog exactly as it was (an entry the   *)
(* filename already had stays) and emits no fileChange notification.       *)
(***************************************************************************)
BuildFailed(t) ==
    /\ Settled(t)
    /\ tasks[t].kind = "event"
    /\ tasks[t].io[1].value = Null

C13_StaleButValid ==
    [][\A t \in TaskIds :
          BuildFailed(t) => /\ audioFiles' = audioFiles
                            /\ effects' = <<>>]_vars

\* the rebuild of a tracked file has failed and its handler is about to return
C13_Witness ==
    \E t \in TaskIds :
        /\ BuildFailed(t)
        /\ tasks[t].event = "change"
        /\ tasks[t].files[1] \in Filenames(audioFiles)

(***************************************************************************)
(* C14. Degradation: a watcher error after startup leaves the catalog and  *)
(* the service as they were: list(), count() and getById() return what     *)
(* they returned before it.                                                *)
(***************************************************************************)
C14_Degradation ==
    [][effects' = ErrorLogged =>
          /\ audioFiles' = audioFiles
          /\ Len(audioFiles') = Len(audioFiles)
          /\ \A i \in DOMAIN audioFiles :
                MapGet(audioFiles', audioFiles[i].id) = MapGet(audioFiles, audioFiles[i].id)
          /\ fileWatcher' = fileWatcher
          /\ initState' = initState
          /\ tasks' = tasks]_vars

\* a watcher error has just been logged while the catalog holds entries
C14_Witness ==
    /\ effects = ErrorLogged
    /\ initState = "done"
    /\ audioFiles # <<>>

(***************************************************************************)
(* C15. Every refresh() that completes successfully emits exactly one      *)
(* 'refresh' notification, in the step that commits its scan result, with  *)
(* the payload list() returns then; nothing else emits 'refresh'.          *)
(***************************************************************************)
RefreshEnds(t) == tasks[t].kind = "refresh" /\ tasks'[t] = NoTask

RefreshSucceeds(t) == RefreshEnds(t) /\ (Settled(t) \/ dir = "present")

\* the 'refresh' notifications among the effects e
RefreshNotifications(e) ==
    SelectSeq(e, LAMBDA x : x.type = "emit" /\ x.name = "refresh")

C15_RefreshNotification ==
    [][/\ \A t \in TaskIds :
             RefreshSucceeds(t) =>
                 /\ Len(RefreshNotifications(effects')) = 1
                 /\ RefreshNotifications(effects')[1].payload = audioFiles'
       /\ (\E i \in DOMAIN effects' : effects'[i].name = "refresh" /\ effects'[i].type = "emit")
             => \E t \in TaskIds : RefreshSucceeds(t)]_vars

\* a refresh has just completed and notified a catalog that is not empty
C15_Witness ==
    /\ audioFiles # <<>>
    /\ Len(RefreshNotifications(effects)) = 1
    /\ effects[1].payload = audioFiles

(***************************************************************************)
(* C16. Consistency reset: a refresh() whose scan commits with no watcher  *)
(* handler in progress and nothing set into the catalog since it was       *)
(* cleared leaves exactly one entry per file its scan accepted.            *)
(***************************************************************************)
QuietRefreshCommits(t) ==
    /\ Settled(t)
    /\ tasks[t].kind = "refresh"
    /\ audioFiles = <<>>
    /\ \A u \in TaskIds : tasks[u].kind # "event"

C16_ConsistencyReset ==
    [][\A t \in TaskIds :
          QuietRefreshCommits(t) =>
              /\ Filenames(audioFiles') = { tasks[t].files[i] : i \in Built(t) }
              /\ Len(audioFiles') = Cardinality(Built(t))]_vars

(***************************************************************************)
(* C17. A scan fails as a whole exactly when fs.readdir cannot list the    *)
(* directory: refresh() or initialize() then rejects and no 'refresh' is   *)
(* emitted; a scan whose builds have all settled, failed ones included,    *)
(* never makes its caller reject because of the scan.                      *)
(***************************************************************************)
ScanEnds(t) ==
    /\ IsScan(t)
    /\ tasks[t].pc \in {"readdir", "stat"}
    /\ tasks'[t] = NoTask

C17_ScanFailure ==
    [][\A t \in TaskIds :
          ScanEnds(t) =>
              LET failed == effects' = Rejects(CallName(tasks[t].kind), "scan")
              IN  /\ failed <=> (tasks[t].pc = "readdir" /\ dir # "present")
                  /\ failed /\ tasks[t].kind = "init" => initState' = "failed"
                  /\ ~failed /\ tasks[t].kind = "refresh" =>
                         effects' = RefreshEmits(audioFiles')
                  /\ ~failed /\ tasks[t].kind = "init" =>
                         effects' \in {<<>>, Rejects("initialize", "watch")}]_vars

\* a refresh() has just rejected because the directory could not be listed
C17_Witness ==
    /\ effects = Rejects("refresh", "scan")
    /\ dir = "unlistable"

(***************************************************************************)
(* C18. initialize() on a missing directory creates it and goes on to the  *)
(* scan; initialize() fails only when the directory can neither be         *)
(* accessed nor created or when the initial scan cannot list it.           *)
(***************************************************************************)
C18_InitializeOutcome ==
    [][\A t \in TaskIds :
          tasks[t].kind = "init" =>
              /\ (tasks[t].pc = "ensure" /\ dir = "missing" /\ tasks'[t] # tasks[t])
                    => dir' = "present" /\ initState' # "failed"
              /\ initState' = "failed"
                    => \/ tasks[t].pc = "ensure" /\ dir = "blocked"
                       \/ tasks[t].pc = "readdir" /\ dir # "present"]_vars

(***************************************************************************)
(* C19. initialize() orders its steps: the scan starts only after the      *)
(* directory check has found or created the directory; the watcher is      *)
(* started only in the step that ends a successful initial scan, with the  *)
(* scan result in the catalog, and only when file watching is enabled;     *)
(* after a failed initialize() no watcher runs.                            *)
(***************************************************************************)
C19_InitializeOrder ==
    /\ [](initState = "failed" => ~fileWatcher)
    /\ [][/\ \A t \in TaskIds :
                (tasks'[t].kind = "init" /\ tasks'[t].pc = "readdir"
                                         /\ tasks[t].pc # "readdir")
                    => tasks[t].kind = "init" /\ tasks[t].pc = "ensure" /\ DirExists'
          /\ (~fileWatcher /\ fileWatcher')
                => /\ enableFileWatching
                   /\ initState' = "done"
                   /\ \E t \in TaskIds :
                         /\ tasks[t].kind = "init" /\ tasks'[t] = NoTask
                         /\ tasks[t].pc \in {"readdir", "stat"}
                         /\ audioFiles' = IF Settled(t)
                                          THEN ScanResult(audioFiles, tasks[t].io)
                                          ELSE audioFiles]_vars

\* initialize() has just returned: the scan result is in the catalog and the
\* watcher runs
C19_Witness ==
    /\ initState = "done"
    /\ fileWatcher
    /\ audioFiles = ScannedAt(disk, 1)
    /\ audioFiles # <<>>
    /\ fsOps = 0

(***************************************************************************)
(* C20. A failure to start the watcher does not take the initial catalog   *)
(* away: when watch() fails in initialize(), the catalog holds the initial *)
(* scan result and the application goes on to listen.                      *)
(***************************************************************************)
C20_WatcherOptional ==
    [][effects' = Rejects("initialize", "watch") =>
          /\ \E t \in TaskIds :
                /\ tasks[t].kind = "init"
                /\ audioFiles' = IF Settled(t)
                                 THEN ScanResult(audioFiles, tasks[t].io)
                                 ELSE audioFiles
          /\ Listening']_vars

(***************************************************************************)
(* C21. cleanup() closes the watcher if one runs, empties the catalog and  *)
(* removes all listeners: when its promise resolves no watcher is held or  *)
(* open, count() is 0 and no listener is left. It is idempotent: called in *)
(* that state, or when no watcher was ever started, it resolves in the     *)
(* same step and leaves that state.                                        *)
(***************************************************************************)
CleanupEnds == effects' = Resolves("cleanup")

\* no watcher, an empty catalog, no listeners
CleanedUp == ~fileWatcher /\ watchers.open = 0 /\ getAudioFileCount = 0 /\ ~listeners

CleanupCalled ==
    \/ CleanupEnds
    \/ \E t \in TaskIds : tasks[t].kind = "none" /\ tasks'[t].kind = "cleanup"

C21_Shutdown ==
    [][/\ CleanupEnds => CleanedUp'
       /\ (CleanupCalled /\ ~fileWatcher) => CleanupEnds
       /\ (CleanupCalled /\ CleanedUp) =>
              (CleanupEnds /\ UNCHANGED << audioFiles, fileWatcher, watchers, listeners >>)]_vars

\* the cleanup() of a service that watched a directory holding an accepted
\* file has just resolved
C21_Witness ==
    /\ effects = Resolves("cleanup")
    /\ CleanedUp
    /\ initState = "done" /\ enableFileWatching
    /\ disk[spacedMp3] = File(maxFileSize)

(***************************************************************************)
(* C22. A lookup miss is a value: getById of an id that is no key of the   *)
(* catalog is absent, and a request for an id or a filename the catalog    *)
(* has no entry for is answered 404 with success = false and changes       *)
(* nothing.                                                                *)
(***************************************************************************)
\* the response of the step, if it answered a request
Answered(name) ==
    /\ Len(effects') = 1
    /\ effects'[1].type = "response"
    /\ effects'[1].name = name

LookupMiss ==
    \/ Answered("getAudioFileById") /\ ~MapHas(audioFiles, effects'[1].path)
    \/ Answered("serveAudioFile") /\ effects'[1].path \notin Filenames(audioFiles)

C22_LookupMiss ==
    /\ [](\A id \in RequestedIds : ~MapHas(audioFiles, id) => getAudioFileById(id) = Null)
    /\ [][LookupMiss => /\ effects'[1].status = 404
                        /\ effects'[1].success = "false"
                        /\ audioFiles' = audioFiles]_vars

RefreshRebuilds(t) ==
    /\ Settled(t)
    /\ tasks[t].kind = "refresh"
    /\ fsOps = 0

C24_IdsRegenerated ==
    [][\A t \in TaskIds :
          /\ ChangeCommits(t) =>
                 tasks[t].io[1].value.id \notin IdsOf(audioFiles, tasks[t].files[1])
          /\ RefreshRebuilds(t) =>
                 \A i \in Built(t) :
                    tasks[t].io[i].value.id
                        \notin IdsOf(ScannedAt(disk, 1), tasks[t].files[i])]_vars

(***************************************************************************)
(* C25. Reads hand out snapshots: a caller that changes what list() or     *)
(* getById() returned to it (removes elements of the list, assigns to a    *)
(* field of an entry) leaves the catalog, and so every later list(),       *)
(* getById() and count(), as it was.                                       *)
(***************************************************************************)
CallerActs ==
    /\ Len(effects') = 1
    /\ effects'[1].type = "caller"

C25_Snapshots ==
    [][CallerActs =>
          /\ getAllAudioFiles' = getAllAudioFiles
          /\ getAudioFileCount' = getAudioFileCount
          /\ \A i \in DOMAIN audioFiles :
                getAudioFileById(audioFiles[i].id)' = getAudioFileById(audioFiles[i].id)]_vars

(***************************************************************************)
(* C26. Range handling when a file of size S is streamed: a Range header   *)
(* that is not of the form bytes=start- or bytes=start-end, or has         *)
(* start >= S, end >= S or start > end, is answered 416; every other one   *)
(* is answered 206 with Content-Range 'bytes start-end/S' and              *)
(* Content-Length end - start + 1, a missing end standing for S - 1.       *)
(***************************************************************************)
\* the header is 'bytes=', digits, '-', and digits or nothing
HasRangeForm(r) ==
    /\ Len(r) >= 8
    /\ SubSeq(r, 1, 6) = BytesEq
    /\ DigitRun(r, 7) >= 1
    /\ 7 + DigitRun(r, 7) <= Len(r)
    /\ r[7 + DigitRun(r, 7)] = "-"
    /\ 7 + DigitRun(r, 7) + DigitRun(r, 8 + DigitRun(r, 7)) = Len(r)

RangeStart(r) == parseInt(SubSeq(r, 7, 6 + DigitRun(r, 7)))

RangeEnd(r, size) ==
    IF 7 + DigitRun(r, 7) = Len(r) THEN size - 1
    ELSE parseInt(SubSeq(r, 8 + DigitRun(r, 7), Len(r)))

\* the step has answered a request with a Range header for a file the
\* catalog has an entry for
RangeRequested ==
    /\ Answered("serveAudioFile")
    /\ effects'[1].range \notin {NoRange, <<>>}
    /\ effects'[1].path \in Filenames(audioFiles)

C26_RangeHandling ==
    [][RangeRequested =>
          LET r == effects'[1].range
              size == FindByFilename(audioFiles, effects'[1].path).size
          IN  IF \/ ~HasRangeForm(r)
                 \/ RangeStart(r) >= size
                 \/ RangeEnd(r, size) >= size
                 \/ RangeStart(r) > RangeEnd(r, size)
              THEN effects'[1].status = 416
              ELSE /\ effects'[1].status = 206
                   /\ effects'[1].contentRange =
                          ContentRange(RangeStart(r), RangeEnd(r, size), size)
                   /\ effects'[1].contentLength =
                          NumberToString(RangeEnd(r, size) - RangeStart(r) + 1)]_vars

(***************************************************************************)
(* C27. Format validation: isSupportedAudioFormat(ext) is true iff ext in  *)
(* lower case is wav, mp3 or ogg; getMimeType is total and maps wav to     *)
(* audio/wav, mp3 to audio/mpeg, ogg to audio/ogg (in any case, with or    *)
(* without the leading dot) and every other extension to                   *)
(* application/octet-stream.                                               *)
(***************************************************************************)
\* the extension in lower case, without its leading dot if it has one
FormatTag(ext) ==
    IF Len(ext) > 0 /\ Head(ext) = "." THEN Tail(toLowerCase(ext)) ELSE toLowerCase(ext)

C27_FormatValidation ==
    (Len(effects) = 1 /\ effects[1].type = "return") =>
        LET ext == effects[1].path
        IN  /\ effects[1].supported <=> toLowerCase(ext) \in supportedFormats
            /\ effects[1].mimeType =
                   CASE FormatTag(ext) = <<"w","a","v">> -> "audio/wav"
                     [] FormatTag(ext) = <<"m","p","3">> -> "audio/mpeg"
                     [] FormatTag(ext) = <<"o","g","g">> -> "audio/ogg"
                     [] OTHER -> "application/octet-stream"

(***************************************************************************)
(* C28. The watcher lifecycle: at any moment at most one filesystem        *)
(* watcher is open for the service (a repeated initialize() leaves no      *)
(* earlier watcher running), and when cleanup() has resolved none is.      *)
(***************************************************************************)
C28_WatcherLifecycle ==
    /\ [](watchers.open <= 1)
    /\ [][CleanupEnds => watchers'.open = 0]_vars

(***************************************************************************)
(* C29. Ignored events have no effect: an add, change or unlink event for  *)
(* a file whose extension is not supported, and an unlink event for a      *)
(* filename the catalog has no entry for, leave the catalog unchanged,     *)
(* emit no fileChange and start no handler that could.                     *)
(***************************************************************************)
\* the watcher reports an event for f in this step
EventFor(f) == disk'[f] # disk[f] /\ watchers.open > 0

IgnoredEvent(f) ==
    /\ EventFor(f)
    /\ \/ ~HasSupportedExtension(f)
       \/ disk'[f] = NoEnt /\ f \notin Filenames(audioFiles)

C29_IgnoredEvents ==
    [][\A f \in Names :
          IgnoredEvent(f) =>
              /\ audioFiles' = audioFiles
              /\ \A i \in DOMAIN effects' : effects'[i].name # "fileChange"
              /\ \A t \in TaskIds : tasks'[t].kind = tasks[t].kind]_vars

\* the only change of the directory so far was the removal of r.txt, next
\* to a file the catalog holds: nothing runs and nothing was emitted
C29_Witness ==
    /\ fsOps = 1
    /\ disk[readmeTxt] = NoEnt
    /\ disk[spacedMp3] = File(maxFileSize)
    /\ audioFiles = ScannedAt([disk EXCEPT ![readmeTxt] = File(maxFileSize)], 1)
    /\ audioFiles # <<>>
    /\ tasks = [t \in TaskIds |-> NoTask]
    /\ effects = <<>>

(***************************************************************************)
(* C30. Each catalog mutation the watcher makes emits exactly one          *)
(* fileChange, after the mutation is applied: for an add or change the     *)
(* notification carries the new entry and list(), called inside the        *)
(* listener, holds that entry; for an unlink list() holds no entry for the *)
(* filename.                                                               *)
(***************************************************************************)
\* the fileChange notifications among the effects e
FileChangeNotifications(e) ==
    SelectSeq(e, LAMBDA x : x.type = "emit" /\ x.name = "fileChange")

\* the handler of an add or change event sets the entry it has built
UpsertCommits(t) ==
    /\ Settled(t)
    /\ tasks[t].kind = "event"
    /\ tasks[t].io[1].value # Null

C30_NotifyAfterMutation ==
    [][/\ \A t \in TaskIds :
             UpsertCommits(t) =>
                 /\ Len(FileChangeNotifications(effects')) = 1
                 /\ effects'[1].event = tasks[t].event
                 /\ effects'[1].payload = << tasks[t].io[1].value >>
                 /\ \E i \in DOMAIN getAllAudioFiles' :
                        getAllAudioFiles'[i] = tasks[t].io[1].value
       /\ \A f \in Names :
             UnlinkHandled(f) =>
                 /\ Len(FileChangeNotifications(effects')) = 1
                 /\ effects'[1].event = "unlink"
                 /\ f \notin Filenames(getAllAudioFiles')]_vars

(***************************************************************************)
(* C31. In every response of the list-files and force-refresh endpoints    *)
(* that carries a list, count equals the number of entries of data, also   *)
(* while a refresh or a watcher handler is suspended on its I/O.           *)
(***************************************************************************)
ListAnswered ==
    /\ effects # <<>>
    /\ effects[1].type = "response"
    /\ effects[1].name \in {"getAudioFiles", "refreshAudioFiles"}
    /\ effects[1].status = 200

C31_CountMatchesData ==
    ListAnswered => effects[1].count = Len(effects[1].payload)

\* the list-files endpoint answers a non-empty list while an operation is
\* suspended
C31_Witness ==
    /\ ListAnswered
    /\ effects[1].name = "getAudioFiles"
    /\ effects[1].count >= 1
    /\ \E t \in TaskIds : tasks[t].kind # "none"

(***************************************************************************)
(* C32. Startup is gated on the registry: the server listens only once     *)
(* initialize() has resolved on a valid configuration, and when            *)
(* validateConfig() or initialize() fails the process exits with status 1  *)
(* and has never listened.                                                 *)
(***************************************************************************)
StartFailed ==
    \/ app.phase # "new" /\ ~validateConfig(app)
    \/ initState = "failed" /\ ~StartPending

C32_StartupGating ==
    /\ app.listening => initState = "done" /\ validateConfig(app)
    /\ StartFailed => app.exited /\ app.status = 1 /\ ~app.listening
    /\ ~validateConfig(app) => initState = "new"

\* the server listens on a catalog the initial scan has filled
C32_Witness ==
    /\ app.listening
    /\ ~app.exited
    /\ initState = "done"
    /\ Len(audioFiles) >= 1

\* initialize() has failed and the process has exited
C32_WitnessFailed ==
    /\ initState = "failed"
    /\ app.exited /\ app.status = 1

(***************************************************************************)
(* C33. Graceful shutdown order: once a signal has called shutdown(), the  *)
(* process exits only when cleanup() has settled, with status 0 when it    *)
(* completed (no watcher held or open, empty catalog, no listener) and     *)
(* with status 1 when it failed; no cleanup() is still waiting for the     *)
(* watcher to close when the process exits.                                *)
(***************************************************************************)
\* the process has exited after start() had succeeded: shutdown() ended it
ShutdownExited == app.exited /\ app.listening

CleanupSettled ==
    /\ effects # <<>>
    /\ effects[1].name = "cleanup"
    /\ effects[1].type \in {"resolve", "reject"}

C33_ShutdownOrder ==
    ShutdownExited =>
        /\ CleanupSettled
        /\ app.status = (IF effects[1].type = "resolve" THEN 0 ELSE 1)
        /\ effects[1].type = "resolve" =>
              /\ ~fileWatcher
              /\ watchers.open = 0
              /\ audioFiles = <<>>
              /\ ~listeners
        /\ \A t \in TaskIds : tasks[t].kind # "cleanup"

\* the process has exited with status 0 after closing the watcher it ran
C33_Witness ==
    /\ ShutdownExited
    /\ app.status = 0
    /\ enableFileWatching
    /\ watchers.open = 0

\* the process has exited with status 1 after close() failed
C33_WitnessFailed ==
    /\ ShutdownExited
    /\ app.status = 1

(***************************************************************************)
(* C34. A failed refresh() does not destroy the catalog: when refresh()    *)
(* rejects because the directory cannot be listed, list(), getById() and   *)
(* count() are what they were before the caller called refresh().          *)
(***************************************************************************)
\* the refresh() of task t rejects in this step
RefreshRejects(t) ==
    /\ tasks[t].kind = "refresh"
    /\ tasks'[t].kind = "none"
    /\ effects' = Rejects("refresh", "scan")

C34_FailedRefreshKeeps ==
    [][\A t \in TaskIds :
          RefreshRejects(t) =>
              /\ getAllAudioFiles' = held
              /\ getAudioFileCount' = Len(held)
              /\ \A i \in DOMAIN held : getAudioFileById(held[i].id)' = held[i]]_vars

(***************************************************************************)
(* C36. Overlapping refreshes are serialized: when a refresh() completes   *)
(* and no other is in progress, the catalog is the result of its scan      *)
(* alone, as if it had run after the others: no entry of an overlapping    *)
(* refresh() is left beside it.                                            *)
(***************************************************************************)
\* the refresh() of task t completes in this step and none is left in progress
LastRefreshCompletes(t) ==
    /\ Settled(t)
    /\ tasks[t].kind = "refresh"
    /\ \A u \in TaskIds : tasks'[u].kind = "none"

C36_RefreshesSerialized ==
    [][\A t \in TaskIds :
          LastRefreshCompletes(t) =>
              getAllAudioFiles' = ScanResult(<<>>, tasks[t].io)]_vars

(***************************************************************************)
(* C35. After cleanup() has completed the catalog stays empty: no handler  *)
(* and no refresh() that was suspended when cleanup() ran adds an entry    *)
(* afterwards (the entry it adds is also what such an operation emits).    *)
(***************************************************************************)
\* a cleanup() has completed. In SpecTeardown initialize() has set
\* this.fileWatcher and nothing but the end of cleanup() sets it to null.
CleanupCompleted == ~fileWatcher

C35_StaysEmpty ==
    CleanupCompleted => getAllAudioFiles = <<>> /\ getAudioFileCount = 0

(***************************************************************************)
(* C37. Lookup agrees with listing in every reachable state: getById(id)   *)
(* returns an entry e exactly when e is in list() and e.id = id, and       *)
(* count() is the number of entries of list().                             *)
(***************************************************************************)
\* the ids looked up: every id an entry can get, and a string that is no id
LookedUp ==
    { generateAudioFileId(f, ts) : f \in Names, ts \in 1..MaxTime } \cup { underMp3 }

====
